---- MODULE Spec2Model ----
(***************************************************************************)
(* PicoROM comms channel (firmware/comms.h, firmware/comms.cpp) and the    *)
(* part of the main loop that drives it (firmware/main.cpp).               *)
(*                                                                         *)
(* Two execution contexts are modelled: the foreground (main loop, session *)
(* begin/end, comms_update), advanced one memory access at a time through  *)
(* pc, and the PIO interrupt handler comms_irq_handler, which pre-empts    *)
(* the foreground between any two steps and runs to completion.            *)
(*                                                                         *)
(* The other parts of the firmware are modelled each on its own, the comms *)
(* channel at rest: the outer loop of main with the connection coming and  *)
(* going, the ROM pointer, packet reception (firmware/pico_link.cpp), the  *)
(* firmware update with its bootloader (firmware/pico_fota_bootloader) and *)
(* the debug buffer (firmware/debug.c).                                    *)
(***************************************************************************)
EXTENDS Integers, Sequences, FiniteSets, TLC

(***************************************************************************)
(* Program constants                                                       *)
(***************************************************************************)
N == 32
MAX_PKT_PAYLOAD == 30
N_ADDR_PINS == 18
ROM_SIZE == 262144
INT32_MAX == 2147483647
W8 == 256
NULL == -1

(***************************************************************************)
(* Bounds of the model                                                     *)
(***************************************************************************)
MaxOutSignals == 2
MaxReads == 33
MaxLateReads == 1
MaxEarlyReads == 3
MaxCalls == 2
MaxTimeout == 1
MixSignals == 1
MixBegins == 2
MaxFifoPush == 41
LongCalls == 256
MaxPacedSignals == 34

VARIABLES
    comms_out_fifo, comms_in_fifo,
    comms_out_deferred_req, comms_out_deferred_ack,
    comms_in_empty_req, comms_in_empty_ack,
    comms_reg, comms_reg_addr,
    rom, armed, watch,
    pc, fg, ret, sent, now,
    env, hist,
    fifo, fifo_hist,
    rom_offset, ptr_hist,
    incoming_buffer, incoming_count, usb,
    flash, boot,
    debug_fifo_count, debug_enabled, debug_xfer_in_progress, dbg

counters == <<comms_out_deferred_req, comms_out_deferred_ack,
              comms_in_empty_req, comms_in_empty_ack>>
rings == <<comms_out_fifo, comms_in_fifo>>
session == <<comms_reg, comms_reg_addr, armed, watch>>
\* main.cpp:27 rom_offset, and the record of the ROM buffer accesses made through it
ptrvars == <<rom_offset, ptr_hist>>
\* pico_link.cpp:9-10 the receive buffer, and the USB byte stream feeding it
linkvars == <<incoming_buffer, incoming_count, usb>>
\* the flash of the device (two image slots and the info sector) and the boot flow
bootvars == <<flash, boot>>
\* debug.c:19-24 the debug buffer, and the printing context
dbgvars == <<debug_fifo_count, debug_enabled, debug_xfer_in_progress, dbg>>
\* what the comms channel never touches
harness == <<fifo, fifo_hist, ptrvars, linkvars, bootvars, dbgvars>>
vars == <<comms_out_fifo, comms_in_fifo,
          comms_out_deferred_req, comms_out_deferred_ack,
          comms_in_empty_req, comms_in_empty_ack,
          comms_reg, comms_reg_addr, rom, armed, watch,
          pc, fg, ret, sent, now, env, hist, fifo, fifo_hist,
          rom_offset, ptr_hist, incoming_buffer, incoming_count, usb,
          flash, boot,
          debug_fifo_count, debug_enabled, debug_xfer_in_progress, dbg>>

Min(a, b) == IF a < b THEN a ELSE b

(***************************************************************************)
(* uint32_t.  The model checker's integers are 32 bits wide, so a uint32_t *)
(* is held as the two's-complement integer with the same 32 bits: u below  *)
(* 2^31 is held as u, u from 2^31 up as u - 2^32.  Inc32 and Sub32 are ++  *)
(* and - modulo 2^32 on that representation; x % 2^k is the same for both  *)
(* readings, and an unsigned value is in 0..N exactly when its signed      *)
(* reading is.                                                             *)
(***************************************************************************)
Inc32(x) == IF x = INT32_MAX THEN (-INT32_MAX) - 1 ELSE x + 1

Sub32(a, b) ==
    IF (a >= 0) = (b >= 0) THEN a - b
    ELSE IF a >= 0
         THEN IF a - INT32_MAX <= b THEN a - b
              ELSE (((a - INT32_MAX) - 1) - b) - INT32_MAX - 1
         ELSE IF a >= ((-INT32_MAX) - 1) + b THEN a - b
              ELSE (((a + INT32_MAX) + 1) - b) + INT32_MAX + 1

(***************************************************************************)
(* FIFO<N>  (firmware/comms.h)                                             *)
(***************************************************************************)
FIFO == [head |-> 0, tail |-> 0, data |-> [i \in 0..(N - 1) |-> 0]]

\* faulty variant of clear: rewinds tail to slot 0 instead of catching up with head
clear_rewind(f) == [f EXCEPT !.tail = 0]

clear(f) == [f EXCEPT !.tail = f.head]

count(f) == Sub32(f.head, f.tail)

is_full(f) == count(f) = N

is_empty(f) == count(f) = 0

\* push, first half: data[head % N] = v
\* faulty variant of push: stores one slot too far
push_write_next(f, v) == [f EXCEPT !.data[(f.head + 1) % N] = v]

push_write(f, v) == [f EXCEPT !.data[f.head % N] = v]

\* push, second half: head++
\* faulty variant of push: head moves past a slot that was not written
push_inc_skip(f) == [f EXCEPT !.head = Inc32(Inc32(f.head))]

push_inc(f) == [f EXCEPT !.head = Inc32(f.head)]

push(f, v) == push_inc(push_write(f, v))

\* pop, first half: v = data[tail % N]
\* faulty variant of pop: reads the slot after the tail
pop_read_next(f) == f.data[(f.tail + 1) % N]

pop_read(f) == f.data[f.tail % N]

\* pop, second half: tail++
pop_inc(f) == [f EXCEPT !.tail = Inc32(f.tail)]

\* faulty variant of peek: reads the slot before the tail
peek_prev(f) == f.data[(f.tail + N - 1) % N]

peek(f) == f.data[f.tail % N]

(***************************************************************************)
(* Register block and ROM buffer                                           *)
(***************************************************************************)
\* addr & ADDR_MASK & ~0x3ff
\* faulty variant: the address is aligned but not reduced to the address pins
AlignBase_nomask(addr) == addr - (addr % 1024)

\* faulty variant: aligned to 0x200, the block size of the earlier revision
AlignBase_512(addr) == (addr % (2 ^ N_ADDR_PINS)) - (addr % 512)

AlignBase(addr) == (addr % (2 ^ N_ADDR_PINS)) - (addr % 1024)

\* 0x1234, 0x2400 and 0xFFFFFFFF
Addrs == {4660, 9216, -1}

Bases == {AlignBase(a) : a \in Addrs}

MAGIC == <<80, 73, 67, 79>>

CommsRegisters == [magic |-> <<0, 0, 0, 0>>, active |-> 0, pending |-> 0,
                   in_seq |-> 0, out_seq |-> 0, debug1 |-> 0, debug2 |-> 0,
                   in_byte |-> 0]

\* a store through the session handle: comms_reg->field = val
RegWrite(r, ptr, field, val) ==
    IF ptr = NULL THEN r ELSE [r EXCEPT ![ptr][field] = val]

RegRead(r, ptr, field) == IF ptr = NULL THEN 0 ELSE r[ptr][field]

(***************************************************************************)
(* Transport (firmware/pico_link.cpp)                                      *)
(***************************************************************************)
pl_send_payload(type, data) ==
    [type |-> type, payload |-> SubSeq(data, 1, Min(Len(data), MAX_PKT_PAYLOAD))]

(***************************************************************************)
(* Environment: the stimuli of one run                                     *)
(***************************************************************************)
Ramp(n) == [i \in 1..n |-> (48 + i) % W8]

HELLO == <<72, 69, 76, 76, 79>>

Timeouts == {0, MaxTimeout}

\* sizes of the burst of outbound accesses that opens a run of the flooding target
OutBursts == {N - 3, N - 1}

\* The target floods the outbound window; the host only polls.
OutProfile ==
    [name |-> "out", seed |-> 240, bursts |-> OutBursts, out |-> MaxOutSignals, rd |-> 0,
     rdInCall |-> FALSE, polite |-> FALSE, other |-> FALSE, calls |-> MaxCalls,
     begins |-> 1, bufs |-> {}, touts |-> {0}, addrs |-> {4660},
     steady |-> FALSE, bySeq |-> FALSE, paced |-> FALSE]

\* The host sends bursts that fill the inbound ring; the target hardly reads.
FullProfile ==
    [name |-> "full", seed |-> 65, bursts |-> {}, out |-> 0, rd |-> MaxLateReads,
     rdInCall |-> TRUE, polite |-> TRUE, other |-> FALSE, calls |-> MaxCalls, begins |-> 1,
     bufs |-> {Ramp(N), Ramp(N + 1)}, touts |-> {MaxTimeout}, addrs |-> {4660},
     steady |-> FALSE, bySeq |-> FALSE, paced |-> FALSE]

\* The host sends one message; the target reads the mailbox after it has arrived.
TrainProfile ==
    [name |-> "train", seed |-> 65, bursts |-> {}, out |-> 0, rd |-> MaxReads,
     rdInCall |-> FALSE, polite |-> TRUE, other |-> FALSE, calls |-> MaxCalls - 1,
     begins |-> 1,
     bufs |-> {HELLO, Ramp(N)}, touts |-> {MaxTimeout}, addrs |-> {4660},
     steady |-> FALSE, bySeq |-> FALSE, paced |-> FALSE]

\* The host sends short messages; the target reads the mailbox at any time.
ReadProfile ==
    [name |-> "read", seed |-> 65, bursts |-> {}, out |-> 0, rd |-> MaxEarlyReads,
     rdInCall |-> TRUE, polite |-> FALSE, other |-> FALSE, calls |-> MaxCalls, begins |-> 1,
     bufs |-> {<<65>>, HELLO}, touts |-> Timeouts, addrs |-> {4660},
     steady |-> FALSE, bySeq |-> FALSE, paced |-> FALSE]

\* Both directions at once, sessions restarted and moved.
MixProfile ==
    [name |-> "mix", seed |-> 65, bursts |-> {}, out |-> MixSignals, rd |-> MixSignals,
     rdInCall |-> TRUE, polite |-> FALSE, other |-> TRUE, calls |-> MaxCalls - 1,
     begins |-> MixBegins, bufs |-> {<<65, 66>>}, touts |-> {0}, addrs |-> {4660, -1},
     steady |-> FALSE, bySeq |-> FALSE, paced |-> FALSE]

\* A long steady exchange: the host sends one byte at a time, the target reads
\* it once it has arrived; the host neither polls in between nor ends the
\* session, it waits for the target to take each byte, and its deadline
\* (5000 ms in main.cpp) is never reached.
LongProfile ==
    [name |-> "long", seed |-> 65, bursts |-> {}, out |-> 0, rd |-> LongCalls,
     rdInCall |-> FALSE, polite |-> TRUE, other |-> FALSE, calls |-> LongCalls,
     begins |-> 1, bufs |-> {<<65>>}, touts |-> {MaxTimeout}, addrs |-> {4660},
     steady |-> TRUE, bySeq |-> FALSE, paced |-> FALSE]

\* The host sends short messages; the target polls in_seq and reads the mailbox
\* when in_seq differs from the value it saw at its previous read, at any point
\* of the foreground.
SeqProfile ==
    [name |-> "seq", seed |-> 65, bursts |-> {}, out |-> 0, rd |-> MaxEarlyReads,
     rdInCall |-> TRUE, polite |-> FALSE, other |-> FALSE, calls |-> MaxCalls, begins |-> 1,
     bufs |-> {<<65>>, <<66, 67>>}, touts |-> {MaxTimeout}, addrs |-> {4660},
     steady |-> FALSE, bySeq |-> TRUE, paced |-> FALSE]

\* The target paces itself by out_seq: it issues its next outbound access once
\* it has seen out_seq differ from the value it had before its previous access.
\* The host only polls.
PacedProfile ==
    [name |-> "paced", seed |-> 240, bursts |-> {}, out |-> MaxPacedSignals, rd |-> 0,
     rdInCall |-> FALSE, polite |-> FALSE, other |-> FALSE, calls |-> MaxCalls,
     begins |-> 1, bufs |-> {}, touts |-> {0}, addrs |-> {4660},
     steady |-> FALSE, bySeq |-> FALSE, paced |-> TRUE]

Profiles == {OutProfile, FullProfile, TrainProfile, ReadProfile, MixProfile, LongProfile,
             SeqProfile, PacedProfile}

\* low byte of the k-th outbound access of the run (k counted from 0)
OutByte(k) == (env.prof.seed + k) % W8

\* History kept for the properties; the firmware never reads it.
\*   m           outbound accesses since the foreground last saw the outbound ring empty
\*   mEntry      m at the dispatch of the call, 0 once an access has followed
\*   outSig      an outbound access has been handled since the dispatch
\*   rdSig       a mailbox read has been handled during the call
\*   obs         what the target saw at each mailbox read made outside a data call
\*   d           the buffer of the last data call
\*   admitted    the bytes published in the inbound ring by the call
\*   fullAtEntry the inbound ring was full at the dispatch
\*   idle        the outbound ring was empty and len was 0 at the dispatch
\*   settled     no outbound deferral was pending at the dispatch
\*   lateChecks  deadline checks of the call made after timeout_ms had elapsed
\*   fresh       the session has seen no mailbox read before or during its only
\*               data call, and that call has not failed
\*   dataCalls   data calls dispatched in the session (2 stands for more)
\*   evt         the handler has run since comms_begin_session was entered
\*               (kept until the call has returned to the main loop)
\*   chunks      the len argument of each pl_send_payload of the call
\*   popped      the bytes popped from the outbound ring during the call
\*   oq, iq      the bytes pushed to the outbound / inbound ring since its last
\*               clear() and not yet popped, oldest first
\*   ook, iok    since then, no push was made on that ring at count() = N and
\*               no pop at count() = 0
\*   mid         the handler has run since the foreground did the first half of
\*               the push or pop it is in
\* and, for the target that reads by in_seq:
\*   seen        in_seq as the target saw it at its previous mailbox read
\*   got         the in_byte values the target has read in the session
\*   all         the bytes admitted to the inbound ring in the session
\*   failed      a call of the session has returned false
\* and, for the target that paces itself by out_seq:
\*   oprev       out_seq as the target saw it before its previous outbound access
\*   nPop        the bytes popped from the outbound ring in the session
\* and, for the outer loop:
\*   dropped     a session was active when the connection was last lost
HistInit == [m |-> 0, mEntry |-> 0, outSig |-> FALSE, rdSig |-> FALSE,
             obs |-> <<>>, d |-> <<>>, admitted |-> <<>>, fullAtEntry |-> FALSE,
             idle |-> FALSE, settled |-> FALSE, lateChecks |-> 0,
             fresh |-> FALSE, dataCalls |-> 0, evt |-> FALSE, chunks |-> <<>>,
             popped |-> <<>>,
             oq |-> <<>>, iq |-> <<>>, ook |-> TRUE, iok |-> TRUE, mid |-> FALSE,
             seen |-> 0, got |-> <<>>, all |-> <<>>, failed |-> FALSE,
             oprev |-> 0, nPop |-> 0, dropped |-> FALSE]

FgInit == [data |-> <<>>, len |-> 0, timeout_ms |-> 0, end_time |-> 0,
           outbytes |-> <<>>, incount |-> 0, v |-> 0, tmp |-> 0,
           from |-> "first", addr |-> 0]

\* History of the ring under test: the bytes pushed and popped so far, whether
\* every push found room (ok), and whether a push has followed a pop (mixed).
FifoHistInit == [pushed |-> <<>>, popped |-> <<>>, ok |-> TRUE, mixed |-> FALSE, seed |-> 0]

(***************************************************************************)
(* The other parts of the firmware, as they stand while the comms channel  *)
(* is exercised: the device is connected, no packet is being received, no  *)
(* update is under way and debug output is off.                            *)
(***************************************************************************)
PtrHistInit == [op |-> "none", lo |-> 0, len |-> 0, n |-> 0, wild |-> FALSE]

PtrRest ==
    /\ rom_offset = 0
    /\ ptr_hist = PtrHistInit

UsbInit == [stream |-> <<>>, cdc |-> <<>>, req |-> FALSE, got |-> <<>>, pkts |-> <<>>,
            all |-> <<>>]

LinkRest ==
    /\ incoming_buffer = <<>>
    /\ incoming_count = 0
    /\ usb = UsbInit

\* the flash after a boot with nothing to swap, the application in its loop
FlashInit == [app |-> 1, dl |-> 0, valid |-> FALSE, rollback |-> FALSE,
              swapped |-> FALSE, after |-> FALSE]

BootInit == [pc |-> "a_run", hashing |-> TRUE, img |-> 0, sizeOk |-> TRUE, branch |-> "nothing",
             check |-> 0, prev |-> 0, pending |-> FALSE, committed |-> TRUE,
             expect |-> FALSE, failed |-> FALSE, keep |-> 0]

BootRest ==
    /\ flash = FlashInit
    /\ boot = BootInit

DbgInit == [pc |-> "idle", left |-> 0, idx |-> 0, oob |-> FALSE, stalled |-> FALSE]

DebugRest ==
    /\ debug_fifo_count = 0
    /\ debug_enabled = FALSE
    /\ debug_xfer_in_progress = FALSE
    /\ dbg = DbgInit

MainInit ==
    /\ comms_out_fifo = FIFO
    /\ comms_in_fifo = FIFO
    /\ comms_out_deferred_req = 0
    /\ comms_out_deferred_ack = 0
    /\ comms_in_empty_req = 0
    /\ comms_in_empty_ack = 0
    /\ comms_reg = NULL
    /\ comms_reg_addr = 0
    /\ rom = [b \in Bases |-> CommsRegisters]
    /\ armed = FALSE
    /\ watch = NULL
    /\ pc = "main"
    /\ fg = FgInit
    /\ ret = TRUE
    /\ sent = <<>>
    /\ now = 0
    /\ hist = HistInit

Init ==
    /\ MainInit
    /\ \E p \in Profiles :
          env = [prof |-> p, burst |-> 0, left |-> 0, nOut |-> 0, nRead |-> 0, nCalls |-> 0, nBegin |-> 0]
    /\ fifo = FIFO
    /\ fifo_hist = FifoHistInit
    /\ PtrRest /\ LinkRest /\ BootRest /\ DebugRest

InCall == pc \notin {"main", "ret", "outer", "wait", "bs_clear_out", "bs_clear_in", "bs_counters", "bs_ptr",
                     "bs_regs", "bs_arm", "bs_active", "bs_done",
                     "es_entry", "es_programs", "es_active", "es_handle", "es_done"}

InDataCall == InCall /\ fg.len > 0

\* control is inside comms_begin_session (bs_done: it has just returned)
InBegin == pc \in {"bs_clear_out", "bs_clear_in", "bs_counters", "bs_ptr", "bs_regs",
                   "bs_arm", "bs_active", "bs_done"}

(***************************************************************************)
(* comms_irq_handler  (firmware/comms.cpp:49-87)                           *)
(***************************************************************************)
\* a run of back-to-back outbound accesses is over: the target's accesses of a
\* burst are closer together than the steps of the foreground
Quiet == env.left = 0

\* the foreground is between the two halves of a pop or of a push
MidRing == pc \in {"uco_pop", "in_push_inc"}

\* addr & 0x100
OutBit(addr) == (addr \div 256) % 2 = 1

\* what the handler can touch
IrqState == [out |-> comms_out_fifo, inf |-> comms_in_fifo,
             oreq |-> comms_out_deferred_req, ireq |-> comms_in_empty_req, rom |-> rom]

\* comms.cpp:55-66  the outbound branch: push, then defer or bump out_seq
HandlerOut(st, reg, addr) ==
    IF reg # NULL
    THEN LET f == push(st.out, addr % W8)
         IN  IF is_full(f)
             THEN [st EXCEPT !.out = f, !.oreq = (st.oreq + 1) % W8]
             ELSE [st EXCEPT !.out = f,
                             !.rom = RegWrite(st.rom, reg, "out_seq",
                                              Inc32(RegRead(st.rom, reg, "out_seq")))]
    ELSE st

\* comms.cpp:70-85  the inbound-consumed branch: pop, then refresh the mailbox
HandlerIn(st, reg) ==
    LET f  == pop_inc(st.inf)
        r2 == RegWrite(st.rom, reg, "debug1", Inc32(RegRead(st.rom, reg, "debug1")))
    IN  IF reg # NULL
        THEN IF is_empty(f)
             THEN [st EXCEPT !.inf = f, !.ireq = (st.ireq + 1) % W8,
                             !.rom = RegWrite(r2, reg, "pending", 0)]
             ELSE [st EXCEPT !.inf = f,
                             !.rom = RegWrite(RegWrite(r2, reg, "in_byte", peek(f)),
                                              reg, "in_seq",
                                              Inc32(RegRead(r2, reg, "in_seq")))]
        ELSE [st EXCEPT !.inf = f]

\* comms.cpp:49-87  one invocation, run to completion
comms_irq_handler(st, reg, addr) ==
    LET s1 == [st EXCEPT !.rom = RegWrite(st.rom, reg, "debug2", addr)]
    IN  IF OutBit(addr) THEN HandlerOut(s1, reg, addr)
        ELSE IF addr = 0 THEN HandlerIn(s1, reg)
        ELSE s1

Irq(st) ==
    /\ armed
    /\ comms_out_fifo' = st.out
    /\ comms_in_fifo' = st.inf
    /\ comms_out_deferred_req' = st.oreq
    /\ comms_in_empty_req' = st.ireq
    /\ rom' = st.rom
    /\ UNCHANGED <<comms_out_deferred_ack, comms_in_empty_ack, session,
                   pc, fg, ret, sent, now, harness>>

\* the target reads addr_base + 0x300 + byte.  A flooding target opens with a
\* burst: env.left further accesses follow before the foreground runs again.
OutboundAccess ==
    /\ \E n \in (IF env.left > 0 THEN {env.left}
                 ELSE (IF env.nOut - env.burst < env.prof.out THEN {1} ELSE {})
                      \cup (IF env.nOut = 0 THEN env.prof.bursts ELSE {})) :
          env' = [env EXCEPT !.nOut = @ + 1,
                             !.left = n - 1,
                             !.burst = IF env.left = 0 /\ n > 1 THEN n ELSE @]
    /\ env.prof.paced =>
          /\ comms_reg # NULL
          /\ env.nOut = 0 \/ RegRead(rom, comms_reg, "out_seq") # hist.oprev
    /\ Irq(comms_irq_handler(IrqState, comms_reg, 256 + OutByte(env.nOut)))
    /\ hist' = [hist EXCEPT !.m = Min(hist.m + 1, N + 1), !.mEntry = 0, !.outSig = TRUE,
                             !.evt = InBegin,
                             !.oq = IF comms_reg # NULL THEN Append(@, OutByte(env.nOut))
                                    ELSE @,
                             !.ook = @ /\ (comms_reg = NULL \/ ~is_full(comms_out_fifo)),
                             !.mid = @ \/ MidRing,
                             !.oprev = IF env.prof.paced
                                       THEN RegRead(rom, comms_reg, "out_seq") ELSE @]

\* the target reads the in_byte mailbox at addr_base + 0x200
MailboxRead ==
    /\ Quiet
    /\ env.nRead < env.prof.rd
    /\ env.prof.rdInCall \/ ~InDataCall
    /\ env.prof.polite => RegRead(rom, comms_reg, "pending") # 0
    /\ env.prof.bySeq => RegRead(rom, comms_reg, "in_seq") # hist.seen
    /\ Irq(comms_irq_handler(IrqState, comms_reg, 0))
    /\ env' = [env EXCEPT !.nRead = @ + 1]
    /\ hist' = [hist EXCEPT
                  !.iq = IF @ = <<>> THEN @ ELSE Tail(@),
                  !.iok = @ /\ ~is_empty(comms_in_fifo),
                  !.mid = @ \/ MidRing,
                  !.seen = IF env.prof.bySeq THEN RegRead(rom, comms_reg, "in_seq") ELSE @,
                  !.got = IF env.prof.bySeq
                          THEN Append(@, RegRead(rom, comms_reg, "in_byte")) ELSE @,
                  !.rdSig = hist.rdSig \/ InCall,
                  !.evt = InBegin,
                  !.fresh = hist.fresh /\ ~InDataCall /\ hist.dataCalls = 1,
                  !.obs = IF InDataCall THEN hist.obs
                          ELSE Append(hist.obs,
                                 [byte |-> RegRead(rom, comms_reg, "in_byte"),
                                  seq |-> RegRead(rom, comms_reg, "in_seq"),
                                  pending |-> RegRead(rom, comms_reg, "pending")])]

\* the target reads another byte of the watched half of the block
OtherAccess ==
    /\ Quiet
    /\ env.prof.other
    /\ RegRead(rom, comms_reg, "debug2") # 4
    /\ Irq(comms_irq_handler(IrqState, comms_reg, 4))
    /\ hist' = [hist EXCEPT !.evt = InBegin]
    /\ UNCHANGED env

(***************************************************************************)
(* Tests and expressions of comms.cpp used by the steps below               *)
(***************************************************************************)
\* pico/time.h make_timeout_time_ms.  The clock (now, in milliseconds) is read
\* here and at the deadline check; its origin is the dispatch of the call.
\* faulty variant: the deadline is the time of the call
make_timeout_time_ms_now(ms) == now

make_timeout_time_ms(ms) == now + ms

\* pico/time.h get_absolute_time: the clock never runs backwards.  Readings
\* before the deadline all behave like the previous reading, those after it
\* like the first one past it.
ClockReadings(end_time) ==
    {t \in {now, end_time, end_time + 1} : t >= now /\ (env.prof.steady => t = now)}

\* comms.cpp:253  absolute_time_diff_us(get_absolute_time(), end_time) < 0
\* faulty variant: the deadline itself already counts as passed
TimedOut_at(t, end_time) == end_time - t <= 0

TimedOut(t, end_time) == end_time - t < 0

\* comms.cpp:196  *outcount == max_outcount
\* faulty variant: the chunk is sent one byte late
ChunkFull_late(outbytes) == Len(outbytes) = MAX_PKT_PAYLOAD + 1

ChunkFull(outbytes) == Len(outbytes) = MAX_PKT_PAYLOAD

\* comms.cpp:259  data[incount]
\* faulty variant: always the first byte of the payload
DataAt_first(data, incount) == data[1]

DataAt(data, incount) == data[incount + 1]

\* comms.cpp:270  outcount > 0
\* faulty variant: the final chunk is sent even when empty
FlushNeeded_always(outbytes) == Len(outbytes) >= 0

FlushNeeded(outbytes) == Len(outbytes) > 0

\* comms.cpp:227, 237  comms_reg == nullptr
\* faulty variant: the handle is never taken to be null
NoSession_never(reg) == FALSE

NoSession(reg) == reg = NULL

(***************************************************************************)
(* Main loop  (firmware/main.cpp:379-484)                                  *)
(***************************************************************************)
Dispatch(data, t) ==
    /\ Quiet
    /\ pc = "main"
    /\ env.nCalls < env.prof.calls
    /\ pc' = "cu_entry"
    /\ fg' = [FgInit EXCEPT !.data = data, !.len = Len(data), !.timeout_ms = t]
    /\ sent' = <<>>
    /\ now' = 0
    /\ env' = [env EXCEPT !.nCalls = @ + 1]
    /\ hist' = [hist EXCEPT
                  !.outSig = FALSE, !.rdSig = FALSE, !.admitted = <<>>,
                  !.mEntry = hist.m, !.lateChecks = 0, !.chunks = <<>>,
                  !.popped = <<>>,
                  !.obs = IF Len(data) > 0 THEN <<>> ELSE hist.obs,
                  !.d = IF Len(data) > 0 THEN data ELSE hist.d,
                  !.fullAtEntry = is_full(comms_in_fifo),
                  !.idle = is_empty(comms_out_fifo) /\ Len(data) = 0,
                  !.settled = (comms_out_deferred_ack = comms_out_deferred_req),
                  !.fresh = IF Len(data) > 0 THEN hist.fresh /\ hist.dataCalls = 0
                            ELSE hist.fresh,
                  !.dataCalls = IF Len(data) > 0 THEN Min(hist.dataCalls + 1, 2)
                                ELSE hist.dataCalls]
    /\ UNCHANGED <<rings, counters, session, rom, ret, harness>>

\* main.cpp:382  comms_update(nullptr, 0, 5000) on every pass of the loop
MainPoll == ~env.prof.steady /\ \E t \in env.prof.touts : Dispatch(<<>>, t)

\* main.cpp:477-479  a CommsData packet: comms_update(req->payload, req->size, 5000)
\* (in a steady exchange the host sends within the session, and the next byte
\* when the target has taken the previous one)
PktCommsData ==
    /\ env.prof.steady => (comms_reg # NULL /\ RegRead(rom, comms_reg, "pending") = 0)
    /\ \E d \in env.prof.bufs, t \in env.prof.touts : Dispatch(d, t)

\* main.cpp:382-385 and 479-482: a false result is reported, nothing else
MainResult ==
    /\ Quiet
    /\ pc = "ret"
    /\ pc' = "main"
    /\ sent' = IF ret THEN sent ELSE Append(sent, [type |-> "Error", payload |-> <<>>])
    /\ UNCHANGED <<rings, counters, session, rom, fg, ret, now, env, hist, harness>>

\* main.cpp:461-465  a CommsStart packet
PktCommsStart ==
    /\ Quiet
    /\ pc = "main"
    /\ env.nBegin < env.prof.begins
    /\ \E a \in env.prof.addrs : fg' = [FgInit EXCEPT !.addr = a]
    /\ pc' = "bs_clear_out"
    /\ sent' = <<>>
    /\ env' = [env EXCEPT !.nBegin = @ + 1]
    /\ hist' = [hist EXCEPT !.fresh = TRUE, !.dataCalls = 0, !.obs = <<>>, !.evt = FALSE,
                             !.seen = 0, !.got = <<>>, !.all = <<>>, !.failed = FALSE,
                             !.oprev = 0, !.nPop = 0]
    /\ UNCHANGED <<rings, counters, session, rom, ret, now, harness>>

\* main.cpp:470-472  a CommsEnd packet
PktCommsEnd ==
    /\ Quiet
    /\ pc = "main"
    /\ ~env.prof.steady
    /\ pc' = "es_entry"
    /\ fg' = FgInit
    /\ sent' = <<>>
    /\ hist' = [hist EXCEPT !.fresh = FALSE]
    /\ UNCHANGED <<rings, counters, session, rom, ret, now, env, harness>>

(***************************************************************************)
(* comms_begin_session  (firmware/comms.cpp:204-223)                       *)
(***************************************************************************)
\* comms.cpp:206  comms_out_fifo.clear()
BsClearOut ==
    /\ Quiet
    /\ pc = "bs_clear_out"
    /\ comms_out_fifo' = clear(comms_out_fifo)
    /\ hist' = [hist EXCEPT !.m = 0, !.oq = <<>>, !.ook = TRUE]
    /\ pc' = "bs_clear_in"
    /\ UNCHANGED <<comms_in_fifo, counters, session, rom, fg, ret, sent, now, env, harness>>

\* comms.cpp:207  comms_in_fifo.clear()
BsClearIn ==
    /\ Quiet
    /\ pc = "bs_clear_in"
    /\ comms_in_fifo' = clear(comms_in_fifo)
    /\ hist' = [hist EXCEPT !.iq = <<>>, !.iok = TRUE]
    /\ pc' = "bs_counters"
    /\ UNCHANGED <<comms_out_fifo, counters, session, rom, fg, ret, sent, now, env, harness>>

\* comms.cpp:208-211
BsCounters ==
    /\ Quiet
    /\ pc = "bs_counters"
    /\ comms_out_deferred_ack' = 0
    /\ comms_out_deferred_req' = 0
    /\ comms_in_empty_ack' = 0
    /\ comms_in_empty_req' = 1
    /\ pc' = "bs_ptr"
    /\ UNCHANGED <<rings, session, rom, fg, ret, sent, now, env, hist, harness>>

\* comms.cpp:212-213
BsPtr ==
    /\ Quiet
    /\ pc = "bs_ptr"
    /\ comms_reg_addr' = AlignBase(fg.addr)
    /\ comms_reg' = AlignBase(fg.addr)
    /\ pc' = "bs_regs"
    /\ UNCHANGED <<rings, counters, armed, watch, rom, fg, ret, sent, now, env, hist, harness>>

\* comms.cpp:214-218
\* faulty variant: the block is marked active while it is initialised, before
\* the event source is armed
BsRegs_active ==
    /\ Quiet
    /\ pc = "bs_regs"
    /\ rom' = [rom EXCEPT ![comms_reg] =
                  [@ EXCEPT !.active = 1, !.pending = 0, !.in_seq = 0,
                            !.out_seq = 0, !.magic = MAGIC]]
    /\ pc' = "bs_arm"
    /\ UNCHANGED <<rings, counters, session, fg, ret, sent, now, env, hist, harness>>

BsRegs ==
    /\ Quiet
    /\ pc = "bs_regs"
    /\ rom' = [rom EXCEPT ![comms_reg] =
                  [@ EXCEPT !.active = 0, !.pending = 0, !.in_seq = 0,
                            !.out_seq = 0, !.magic = MAGIC]]
    /\ pc' = "bs_arm"
    /\ UNCHANGED <<rings, counters, session, fg, ret, sent, now, env, hist, harness>>

\* comms.cpp:220  comms_start_programs: the detect program is given the base of
\* the block to watch (pio_set_y, comms.cpp:113), it and its interrupt are enabled
BsArm ==
    /\ Quiet
    /\ pc = "bs_arm"
    /\ armed' = TRUE
    /\ watch' = comms_reg_addr
    /\ pc' = "bs_active"
    /\ UNCHANGED <<rings, counters, comms_reg, comms_reg_addr, rom, fg, ret, sent, now,
                   env, hist, harness>>

\* comms.cpp:222  comms_reg->active = 1
BsActive ==
    /\ Quiet
    /\ pc = "bs_active"
    /\ rom' = RegWrite(rom, comms_reg, "active", 1)
    /\ pc' = "bs_done"
    /\ UNCHANGED <<rings, counters, session, fg, ret, sent, now, env, hist, harness>>

\* main.cpp:466  pl_send_debug("Comms Started", addr, 0)
BsDone ==
    /\ Quiet
    /\ pc = "bs_done"
    /\ sent' = Append(sent, [type |-> "Debug", payload |-> <<>>])
    /\ hist' = [hist EXCEPT !.evt = FALSE]
    /\ pc' = "main"
    /\ UNCHANGED <<rings, counters, session, rom, fg, ret, now, env, harness>>

(***************************************************************************)
(* comms_end_session  (firmware/comms.cpp:225-233)                         *)
(***************************************************************************)
\* comms.cpp:227  if (comms_reg == nullptr) return;
EsEntry ==
    /\ Quiet
    /\ pc = "es_entry"
    /\ pc' = IF NoSession(comms_reg) THEN "es_done" ELSE "es_programs"
    /\ UNCHANGED <<rings, counters, session, rom, fg, ret, sent, now, env, hist, harness>>

\* comms.cpp:229  comms_end_programs: debug1 trace writes, detect program and interrupt off
\* faulty variant: the detect program and its interrupt are left enabled
EsPrograms_armed ==
    /\ Quiet
    /\ pc = "es_programs"
    /\ rom' = RegWrite(rom, comms_reg, "debug1", 65285)
    /\ pc' = "es_active"
    /\ UNCHANGED <<rings, counters, session, fg, ret, sent, now, env, hist, harness>>

EsPrograms ==
    /\ Quiet
    /\ pc = "es_programs"
    /\ rom' = RegWrite(rom, comms_reg, "debug1", 65285)
    /\ armed' = FALSE
    /\ UNCHANGED watch
    /\ pc' = "es_active"
    /\ UNCHANGED <<rings, counters, comms_reg, comms_reg_addr, fg, ret, sent, now,
                   env, hist, harness>>

\* comms.cpp:231  comms_reg->active = 0
EsActive ==
    /\ Quiet
    /\ pc = "es_active"
    /\ rom' = RegWrite(rom, comms_reg, "active", 0)
    /\ pc' = "es_handle"
    /\ UNCHANGED <<rings, counters, session, fg, ret, sent, now, env, hist, harness>>

\* comms.cpp:232  comms_reg = nullptr
EsHandle ==
    /\ Quiet
    /\ pc = "es_handle"
    /\ comms_reg' = NULL
    /\ pc' = "es_done"
    /\ UNCHANGED <<rings, counters, comms_reg_addr, armed, watch, rom, fg, ret, sent, now,
                   env, hist, harness>>

\* the return to the caller: main.cpp:473  pl_send_debug("Comms Ended", 0, 0)
\* after a CommsEnd packet, main.cpp:374  pl_wait_for_connection() in the
\* outer loop
EsDone ==
    /\ Quiet
    /\ pc = "es_done"
    /\ IF fg.from = "outer"
       THEN /\ pc' = "wait"
            /\ UNCHANGED sent
       ELSE /\ sent' = Append(sent, [type |-> "Debug", payload |-> <<>>])
            /\ pc' = "main"
    /\ UNCHANGED <<rings, counters, session, rom, fg, ret, now, env, hist, harness>>

(***************************************************************************)
(* comms_update and update_comms_out  (firmware/comms.cpp:183-202,235-276) *)
(***************************************************************************)
\* comms.cpp:237-244
CuEntry ==
    /\ Quiet
    /\ pc = "cu_entry"
    /\ IF NoSession(comms_reg)
       THEN /\ ret' = TRUE
            /\ pc' = "ret"
            /\ UNCHANGED fg
       ELSE /\ fg' = [fg EXCEPT !.end_time = make_timeout_time_ms(fg.timeout_ms),
                                !.outbytes = <<>>, !.from = "first"]
            /\ pc' = "uco_rec"
            /\ UNCHANGED ret
    /\ UNCHANGED <<rings, counters, session, rom, sent, now, env, hist, harness>>

\* comms.cpp:185-187  loop test, and the load of out_seq
UcoRec ==
    /\ Quiet
    /\ pc = "uco_rec"
    /\ IF comms_out_deferred_ack # comms_out_deferred_req
       THEN /\ fg' = [fg EXCEPT !.tmp = RegRead(rom, comms_reg, "out_seq")]
            /\ pc' = "uco_rec_st"
       ELSE /\ pc' = "uco_drain"
            /\ UNCHANGED fg
    /\ UNCHANGED <<rings, counters, session, rom, ret, sent, now, env, hist, harness>>

\* comms.cpp:187-188  the store of out_seq, and comms_out_deferred_ack++
UcoRecSt ==
    /\ Quiet
    /\ pc = "uco_rec_st"
    /\ rom' = RegWrite(rom, comms_reg, "out_seq", Inc32(fg.tmp))
    /\ comms_out_deferred_ack' = (comms_out_deferred_ack + 1) % W8
    /\ pc' = "uco_rec"
    /\ UNCHANGED <<rings, comms_out_deferred_req, comms_in_empty_req, comms_in_empty_ack,
                   session, fg, ret, sent, now, env, hist, harness>>

\* comms.cpp:191-193  loop test, and the read half of pop()
UcoDrain ==
    /\ Quiet
    /\ pc = "uco_drain"
    /\ IF count(comms_out_fifo) # 0
       THEN /\ fg' = [fg EXCEPT !.v = pop_read(comms_out_fifo)]
            /\ pc' = "uco_pop"
            /\ UNCHANGED hist
       ELSE /\ pc' = IF fg.from = "first" THEN "in_loop" ELSE "in_wait"
            /\ hist' = [hist EXCEPT !.m = 0]
            /\ UNCHANGED fg
    /\ UNCHANGED <<rings, counters, session, rom, ret, sent, now, env, harness>>

\* comms.cpp:193-200  tail++, the byte joins the chunk, a full chunk is sent
UcoPop ==
    /\ Quiet
    /\ pc = "uco_pop"
    /\ comms_out_fifo' = pop_inc(comms_out_fifo)
    /\ LET ob == Append(fg.outbytes, fg.v)
       IN  IF ChunkFull(ob)
           THEN /\ sent' = Append(sent, pl_send_payload("CommsData", ob))
                /\ fg' = [fg EXCEPT !.outbytes = <<>>]
                /\ hist' = [hist EXCEPT !.chunks = Append(@, Len(ob)),
                                         !.popped = Append(@, fg.v),
                                         !.oq = IF @ = <<>> THEN @ ELSE Tail(@),
                                         !.mid = FALSE,
                                         !.nPop = IF env.prof.paced THEN @ + 1 ELSE @]
           ELSE /\ fg' = [fg EXCEPT !.outbytes = ob]
                /\ hist' = [hist EXCEPT !.popped = Append(@, fg.v),
                                         !.oq = IF @ = <<>> THEN @ ELSE Tail(@),
                                         !.mid = FALSE,
                                         !.nPop = IF env.prof.paced THEN @ + 1 ELSE @]
                /\ UNCHANGED sent
    /\ pc' = "uco_drain"
    /\ UNCHANGED <<comms_in_fifo, counters, session, rom, ret, now, env, harness>>

\* comms.cpp:247-249 and 270-275  loop test; pending = 1, or the final flush and return true
InLoop ==
    /\ Quiet
    /\ pc = "in_loop"
    /\ IF fg.incount < fg.len
       THEN /\ rom' = RegWrite(rom, comms_reg, "pending", 1)
            /\ fg' = [fg EXCEPT !.from = "loop"]
            /\ pc' = "uco_rec"
            /\ UNCHANGED <<ret, sent, hist>>
       ELSE /\ sent' = IF FlushNeeded(fg.outbytes)
                       THEN Append(sent, pl_send_payload("CommsData", fg.outbytes))
                       ELSE sent
            /\ hist' = IF FlushNeeded(fg.outbytes)
                       THEN [hist EXCEPT !.chunks = Append(@, Len(fg.outbytes))]
                       ELSE hist
            /\ ret' = TRUE
            /\ pc' = "ret"
            /\ UNCHANGED <<rom, fg>>
    /\ UNCHANGED <<rings, counters, session, now, env, harness>>

\* comms.cpp:253-257  the deadline check, then the test of the do-while
InWait ==
    /\ Quiet
    /\ pc = "in_wait"
    /\ \E t \in ClockReadings(fg.end_time) :
          /\ now' = t
          /\ IF TimedOut(t, fg.end_time)
             THEN /\ ret' = FALSE
                  /\ pc' = "ret"
             ELSE /\ pc' = IF is_full(comms_in_fifo) THEN "uco_rec" ELSE "in_push_wr"
                  /\ UNCHANGED ret
          /\ hist' = [hist EXCEPT
                        !.lateChecks = IF t > fg.timeout_ms THEN @ + 1 ELSE @,
                        !.fresh = @ /\ ~TimedOut(t, fg.end_time),
                        !.failed = @ \/ (env.prof.bySeq /\ TimedOut(t, fg.end_time))]
    /\ UNCHANGED <<rings, counters, session, rom, fg, sent, env, harness>>

\* comms.cpp:259  the write half of push(data[incount])
InPushWr ==
    /\ Quiet
    /\ pc = "in_push_wr"
    /\ comms_in_fifo' = push_write(comms_in_fifo, DataAt(fg.data, fg.incount))
    /\ pc' = "in_push_inc"
    /\ UNCHANGED <<comms_out_fifo, counters, session, rom, fg, ret, sent, now, env, hist,
                   harness>>

\* comms.cpp:259-260  head++ and incount++
InPushInc ==
    /\ Quiet
    /\ pc = "in_push_inc"
    /\ comms_in_fifo' = push_inc(comms_in_fifo)
    /\ fg' = [fg EXCEPT !.incount = @ + 1]
    /\ hist' = [hist EXCEPT
                  !.admitted = Append(@, comms_in_fifo.data[comms_in_fifo.head % N]),
                  !.iq = Append(@, DataAt(fg.data, fg.incount)),
                  !.mid = FALSE,
                  !.all = IF env.prof.bySeq
                          THEN Append(@, comms_in_fifo.data[comms_in_fifo.head % N]) ELSE @]
    /\ pc' = "in_recon"
    /\ UNCHANGED <<comms_out_fifo, counters, session, rom, ret, sent, now, env, harness>>

\* comms.cpp:262-264  the test, and in_byte = peek()
InRecon ==
    /\ Quiet
    /\ pc = "in_recon"
    /\ IF comms_in_empty_ack # comms_in_empty_req
       THEN /\ rom' = RegWrite(rom, comms_reg, "in_byte", peek(comms_in_fifo))
            /\ pc' = "in_recon_ld"
       ELSE /\ pc' = "in_loop"
            /\ UNCHANGED rom
    /\ UNCHANGED <<rings, counters, session, fg, ret, sent, now, env, hist, harness>>

\* comms.cpp:265  the load of in_seq
InReconLd ==
    /\ Quiet
    /\ pc = "in_recon_ld"
    /\ fg' = [fg EXCEPT !.tmp = RegRead(rom, comms_reg, "in_seq")]
    /\ pc' = "in_recon_st"
    /\ UNCHANGED <<rings, counters, session, rom, ret, sent, now, env, hist, harness>>

\* comms.cpp:265-266  the store of in_seq, and comms_in_empty_ack++
InReconSt ==
    /\ Quiet
    /\ pc = "in_recon_st"
    /\ rom' = RegWrite(rom, comms_reg, "in_seq", Inc32(fg.tmp))
    /\ comms_in_empty_ack' = (comms_in_empty_ack + 1) % W8
    /\ pc' = "in_loop"
    /\ UNCHANGED <<rings, comms_out_deferred_req, comms_out_deferred_ack, comms_in_empty_req,
                   session, fg, ret, sent, now, env, hist, harness>>

(***************************************************************************)
(* The firmware and its environment                                        *)
(***************************************************************************)
Next ==
    \/ OutboundAccess \/ MailboxRead \/ OtherAccess
    \/ MainPoll \/ PktCommsData \/ MainResult \/ PktCommsStart \/ PktCommsEnd
    \/ BsClearOut \/ BsClearIn \/ BsCounters \/ BsPtr \/ BsRegs \/ BsArm \/ BsActive \/ BsDone
    \/ EsEntry \/ EsPrograms \/ EsActive \/ EsHandle \/ EsDone
    \/ CuEntry \/ UcoRec \/ UcoRecSt \/ UcoDrain \/ UcoPop
    \/ InLoop \/ InWait \/ InPushWr \/ InPushInc \/ InRecon \/ InReconLd \/ InReconSt

Spec == Init /\ [][Next]_vars

(***************************************************************************)
(* FIFO<N> on its own: any sequence of push() and of pop() on a non-empty  *)
(* ring, from a ring whose counters stand anywhere in their 32-bit range.  *)
(***************************************************************************)
mainvars == <<comms_out_fifo, comms_in_fifo,
              comms_out_deferred_req, comms_out_deferred_ack,
              comms_in_empty_req, comms_in_empty_ack,
              comms_reg, comms_reg_addr, rom, armed, watch,
              pc, fg, ret, sent, now, env, hist,
              ptrvars, linkvars, bootvars, dbgvars>>

\* head = tail = 0, 2^32 - 3 and 2^31 - 2
FifoStarts == {0, -3, INT32_MAX - 1}

FifoSeeds == {65, 240}

FifoInit ==
    /\ MainInit
    /\ env = [prof |-> OutProfile, burst |-> 0, left |-> 0, nOut |-> 0, nRead |-> 0,
              nCalls |-> 0, nBegin |-> 0]
    /\ \E h \in FifoStarts, s \in FifoSeeds :
          /\ fifo = [FIFO EXCEPT !.head = h, !.tail = h]
          /\ fifo_hist = [FifoHistInit EXCEPT !.seed = s]
    /\ PtrRest /\ LinkRest /\ BootRest /\ DebugRest

\* the byte of the k-th push of the run (k counted from 0)
FifoByte(k) == (fifo_hist.seed + k) % W8

FifoPush ==
    /\ Len(fifo_hist.pushed) < MaxFifoPush
    /\ fifo' = push(fifo, FifoByte(Len(fifo_hist.pushed)))
    /\ fifo_hist' = [fifo_hist EXCEPT
                       !.pushed = Append(@, FifoByte(Len(fifo_hist.pushed))),
                       !.ok = @ /\ ~is_full(fifo),
                       !.mixed = @ \/ fifo_hist.popped # <<>>]
    /\ UNCHANGED mainvars

FifoPop ==
    /\ count(fifo) # 0
    /\ fifo' = pop_inc(fifo)
    /\ fifo_hist' = [fifo_hist EXCEPT !.popped = Append(@, pop_read(fifo))]
    /\ UNCHANGED mainvars

FifoNext == FifoPush \/ FifoPop

FifoSpec == FifoInit /\ [][FifoNext]_vars

(***************************************************************************)
(* The pump under a target that never stops.  The target issues an         *)
(* outbound access whenever fewer than FloodBacklog bytes are queued, at   *)
(* any point of the foreground.  The run has no end, so what grows without *)
(* bound and is read by no later step is kept reduced at each access: the  *)
(* ring indices are shifted by a multiple of N (head - tail and both slot  *)
(* numbers are unchanged, N divides 2^32), out_seq, which the firmware     *)
(* only increments, is kept modulo FloodWrap, and the packets that have    *)
(* left the device are forgotten.                                          *)
(***************************************************************************)
FloodBacklog == 2

FloodWrap == 4

\* The target writes without pause; the host polls and sends one byte at a time.
FloodProfile ==
    [name |-> "flood", seed |-> 240, bursts |-> {}, out |-> 0, rd |-> 0,
     rdInCall |-> FALSE, polite |-> FALSE, other |-> FALSE, calls |-> MaxCalls - 1,
     begins |-> 1, bufs |-> {<<65>>}, touts |-> {0}, addrs |-> {4660},
     steady |-> FALSE, bySeq |-> FALSE, paced |-> FALSE]

FloodInit ==
    /\ MainInit
    /\ env = [prof |-> FloodProfile, burst |-> 0, left |-> 0, nOut |-> 0, nRead |-> 0,
              nCalls |-> 0, nBegin |-> 0]
    /\ fifo = FIFO
    /\ fifo_hist = FifoHistInit
    /\ PtrRest /\ LinkRest /\ BootRest /\ DebugRest

\* head and tail moved back by the same multiple of N
Shifted(f) == [f EXCEPT !.head = f.head - N * (f.tail \div N),
                        !.tail = f.tail % N]

FloodAccess ==
    /\ armed
    /\ comms_reg # NULL
    /\ count(comms_out_fifo) < FloodBacklog
    /\ LET st == comms_irq_handler(IrqState, comms_reg, 256 + OutByte(env.nOut))
       IN  /\ comms_out_fifo' = Shifted(st.out)
           /\ comms_in_fifo' = st.inf
           /\ comms_out_deferred_req' = st.oreq
           /\ comms_in_empty_req' = st.ireq
           /\ rom' = RegWrite(st.rom, comms_reg, "out_seq",
                              RegRead(st.rom, comms_reg, "out_seq") % FloodWrap)
    /\ env' = [env EXCEPT !.nOut = (@ + 1) % FloodWrap]
    /\ sent' = <<>>
    /\ hist' = [hist EXCEPT !.m = Min(hist.m + 1, FloodBacklog + 1), !.mEntry = 0,
                             !.outSig = TRUE, !.evt = InBegin, !.chunks = <<>>,
                             !.popped = <<>>,
                             !.oq = Append(@, OutByte(env.nOut)),
                             !.ook = @ /\ ~is_full(comms_out_fifo),
                             !.mid = @ \/ MidRing]
    /\ UNCHANGED <<comms_out_deferred_ack, comms_in_empty_ack, session,
                   pc, fg, ret, now, harness>>

FloodNext ==
    \/ FloodAccess
    \/ MainPoll \/ PktCommsData \/ MainResult \/ PktCommsStart
    \/ BsClearOut \/ BsClearIn \/ BsCounters \/ BsPtr \/ BsRegs \/ BsArm \/ BsActive \/ BsDone
    \/ CuEntry \/ UcoRec \/ UcoDrain \/ UcoPop
    \/ InLoop \/ InWait \/ InPushWr \/ InPushInc \/ InRecon \/ InReconLd \/ InReconSt

\* the steps of comms_update
Pump ==
    \/ CuEntry \/ UcoRec \/ UcoRecSt \/ UcoDrain \/ UcoPop
    \/ InLoop \/ InWait \/ InPushWr \/ InPushInc \/ InRecon \/ InReconLd \/ InReconSt

\* The foreground keeps running (each transport send completes, the handler
\* returns), and the clock does not stand still for ever.
FloodSpec ==
    /\ FloodInit
    /\ [][FloodNext]_vars
    /\ WF_vars(Pump)
    /\ SF_vars(InWait /\ now' > fg.end_time)

(***************************************************************************)
(* comms_irq_handler on its own, with no session: the handle is null, the  *)
(* rings and the counters are as an earlier session may have left them,    *)
(* and the handler is invoked for an outbound access or a mailbox read.    *)
(***************************************************************************)
MaxIsrEvents == 2

\* tail of a ring left by a session: 0 and 2^32 - 3
IsrStarts == {0, -3}

\* bytes left in a ring by a session
IsrCounts == {0, 1, N}

\* counters as left by begin_session, and by a session that has used them
IsrCounters == {<<0, 0, 1, 0>>, <<3, 3, 7, 6>>}

IsrInit ==
    /\ \E h \in IsrStarts, c \in IsrCounts :
          comms_out_fifo = [FIFO EXCEPT !.head = h + c, !.tail = h]
    /\ \E h \in IsrStarts, c \in IsrCounts :
          comms_in_fifo = [FIFO EXCEPT !.head = h + c, !.tail = h]
    /\ \E c \in IsrCounters :
          /\ comms_out_deferred_req = c[1]
          /\ comms_out_deferred_ack = c[2]
          /\ comms_in_empty_req = c[3]
          /\ comms_in_empty_ack = c[4]
    /\ comms_reg = NULL
    /\ comms_reg_addr = 0
    /\ rom = [b \in Bases |-> CommsRegisters]
    /\ armed = FALSE
    /\ watch = NULL
    /\ pc = "main"
    /\ fg = FgInit
    /\ ret = TRUE
    /\ sent = <<>>
    /\ now = 0
    /\ hist = HistInit
    /\ env = [prof |-> OutProfile, burst |-> 0, left |-> 0, nOut |-> 0, nRead |-> 0,
              nCalls |-> 0, nBegin |-> 0]
    /\ fifo = FIFO
    /\ fifo_hist = FifoHistInit
    /\ PtrRest /\ LinkRest /\ BootRest /\ DebugRest

\* one invocation of the handler for the address addr
IsrApply(addr) ==
    LET st == comms_irq_handler(IrqState, comms_reg, addr)
    IN  /\ comms_out_fifo' = st.out
        /\ comms_in_fifo' = st.inf
        /\ comms_out_deferred_req' = st.oreq
        /\ comms_in_empty_req' = st.ireq
        /\ rom' = st.rom
        /\ UNCHANGED <<comms_out_deferred_ack, comms_in_empty_ack, session,
                       pc, fg, ret, sent, now, hist, harness>>

IsrOutbound ==
    /\ env.nOut < MaxIsrEvents
    /\ IsrApply(256 + OutByte(env.nOut))
    /\ env' = [env EXCEPT !.nOut = @ + 1]

IsrMailbox ==
    /\ env.nRead < MaxIsrEvents
    /\ IsrApply(0)
    /\ env' = [env EXCEPT !.nRead = @ + 1]

IsrNext == IsrOutbound \/ IsrMailbox

IsrSpec == IsrInit /\ [][IsrNext]_vars

(***************************************************************************)
(* Properties                                                              *)
(***************************************************************************)
Reg(field) == RegRead(rom, comms_reg, field)

\* the payloads of the CommsData packets of a packet sequence, joined
RECURSIVE Payloads(_)
Payloads(pkts) ==
    IF pkts = <<>> THEN <<>>
    ELSE (IF Head(pkts).type = "CommsData" THEN Head(pkts).payload ELSE <<>>)
         \o Payloads(Tail(pkts))

CeilDiv(a, b) == (a + b - 1) \div b

\* the last m outbound accesses of the run, oldest first
LastAccesses(m) == [i \in 1..m |-> OutByte(env.nOut - m + i - 1)]

\* a call with len = 0 has returned; at its dispatch the outbound ring held the
\* m accesses made since it was last empty, and no access has followed
OutboundCase(m) ==
    /\ pc = "ret"
    /\ comms_reg # NULL
    /\ fg.len = 0
    /\ ~hist.outSig
    /\ hist.mEntry = m

\* C1: in an active session, m outbound accesses (1 <= m <= N) followed by
\* comms_update(nullptr, 0, t) give exactly ceil(m / MAX_PKT_PAYLOAD) CommsData
\* chunks whose concatenation is the low bytes of the m accesses in order, and
\* the outbound ring is left empty.
C1_OutboundDelivery ==
    \A m \in 1..N :
       OutboundCase(m) =>
          /\ Len(sent) = CeilDiv(m, MAX_PKT_PAYLOAD)
          /\ \A i \in 1..Len(sent) : sent[i].type = "CommsData"
          /\ Payloads(sent) = LastAccesses(m)
          /\ is_empty(comms_out_fifo)

C1_Witness ==
    /\ OutboundCase(N)
    /\ Len(sent) = 2
    /\ Len(sent[1].payload) = MAX_PKT_PAYLOAD

\* the only data call of a fresh session has returned true, no mailbox read came
\* before its return
InboundCase ==
    /\ hist.fresh
    /\ hist.dataCalls = 1
    /\ ~InDataCall
    /\ comms_reg # NULL

\* C2: after comms_update(d, n, t) on a fresh session returned true with no
\* mailbox read during the call, the n following mailbox reads see d[0..n-1] in
\* order with in_seq going up by one per read, pending is non-zero before each
\* of them and 0 once the n-th is handled.
C2_InboundDelivery ==
    InboundCase =>
       LET n == Len(hist.d)
           k == Min(Len(hist.obs), n)
       IN  /\ \A i \in 1..k :
                /\ hist.obs[i].byte = hist.d[i]
                /\ hist.obs[i].pending # 0
                /\ hist.obs[i].seq = hist.obs[1].seq + (i - 1)
           /\ Len(hist.obs) < n => Reg("pending") # 0
           /\ Len(hist.obs) = n => Reg("pending") = 0

C2_Witness ==
    /\ InboundCase
    /\ hist.d = HELLO
    /\ Len(hist.obs) = 5
    /\ hist.obs[5].byte = 79
    /\ Reg("pending") = 0

\* C3: as long as no push is issued on a full ring and pop only on a non-empty
\* one, the k-th pop returns the k-th pushed byte.
C3_FifoLaw ==
    fifo_hist.ok =>
       fifo_hist.popped = SubSeq(fifo_hist.pushed, 1, Len(fifo_hist.popped))

C3_Witness ==
    /\ fifo_hist.ok
    /\ Len(fifo_hist.popped) > N
    /\ fifo.tail >= 0
    /\ fifo.tail < N

\* C4: N + k pushes (k > 0) into an empty ring with no pop in between, then pops
\* while count() > 0, yield exactly the last N bytes pushed, in push order.
C4_OverwriteLaw ==
    (/\ ~fifo_hist.mixed
     /\ Len(fifo_hist.pushed) > N
     /\ fifo_hist.popped # <<>>
     /\ is_empty(fifo))
    => fifo_hist.popped = SubSeq(fifo_hist.pushed, Len(fifo_hist.pushed) - N + 1,
                                 Len(fifo_hist.pushed))

\* C5: in every state of an active session both rings hold between 0 and N
\* bytes, count() being the unsigned 32-bit difference head - tail.
C5_RingBound ==
    (comms_reg # NULL /\ Reg("active") = 1) =>
       /\ count(comms_out_fifo) \in 0..N
       /\ count(comms_in_fifo) \in 0..N

\* C6: comms_update returns false only from the deadline check of the admission
\* of an inbound byte, the deadline having passed (so len >= 1); for len = 0 it
\* returns true whatever the state and timeout_ms.
C6_ReturnValue ==
    pc = "ret" =>
       /\ ~ret => /\ fg.len >= 1
                  /\ fg.incount < fg.len
                  /\ comms_reg # NULL
                  /\ now > fg.end_time
       /\ fg.len = 0 => ret

C6_Witness ==
    /\ pc = "ret"
    /\ ~ret
    /\ fg.timeout_ms = 0

\* the call has returned false and the main loop is at, or just past, its
\* reaction to that
FailedCall ==
    \/ pc = "ret" /\ ~ret
    \/ pc = "main" /\ sent # <<>> /\ sent[Len(sent)].type = "Error"

\* C7: when comms_update returns false after admitting j < len bytes, the
\* inbound ring was given exactly data[0..j-1] in order, and the session stays
\* active (handle set, active = 1, event source armed), also once the main loop
\* has reported the failure.
C7_PartialTimeout ==
    FailedCall =>
       /\ fg.incount < fg.len
       /\ hist.admitted = SubSeq(fg.data, 1, fg.incount)
       /\ comms_reg # NULL
       /\ Reg("active") = 1
       /\ armed

C7_Witness ==
    /\ pc = "main"
    /\ FailedCall
    /\ fg.incount = N
    /\ fg.len = N + 1

\* a data call of an active session has returned; the inbound ring was full at
\* its dispatch and no mailbox read was handled during it
FullRingCase ==
    /\ pc = "ret"
    /\ comms_reg # NULL
    /\ fg.len >= 1
    /\ hist.fullAtEntry
    /\ ~hist.rdSig

\* C8: with the inbound ring full for the whole call and len >= 1,
\* comms_update(data, len, T) admits nothing and returns false, not before T ms
\* have elapsed, and at the first deadline check made after that.
C8_TimeoutWindow ==
    FullRingCase =>
       /\ ~ret
       /\ fg.incount = 0
       /\ hist.admitted = <<>>
       /\ now > fg.timeout_ms
       /\ hist.lateChecks = 1

C8_Witness ==
    /\ FullRingCase
    /\ fg.timeout_ms = MaxTimeout
    /\ is_full(comms_in_fifo)

\* C9: with no session, comms_update returns true at once and end_session
\* returns at once; neither sends anything nor changes a ring, a counter, the
\* session or a byte of the emulated storage.
C9_NoSessionNoOp ==
    [][(comms_reg = NULL /\ pc \in {"cu_entry", "es_entry"}) =>
          /\ UNCHANGED <<rings, counters, session, rom, sent>>
          /\ pc = "cu_entry" => (pc' = "ret" /\ ret')
          /\ pc = "es_entry" => pc' = "es_done"]_vars

C9_Witness ==
    /\ pc = "ret"
    /\ comms_reg = NULL
    /\ env.nBegin > 0
    /\ fg.len > 0
    /\ ret

\* a step of comms_update in a call dispatched with len = 0 and an empty
\* outbound ring, no outbound access having been handled since
IdlePumpStep ==
    /\ InCall
    /\ pc' # pc
    /\ comms_reg # NULL
    /\ hist.idle
    /\ ~hist.outSig

IdlePumpQuiet ==
    /\ UNCHANGED <<rings, counters, rom, sent>>
    /\ pc' = "ret" => ret'

\* C10 as stated: in an active session comms_update with an empty outbound
\* ring and len = 0 returns true, sends nothing and changes no ring index, no
\* reconciliation counter and no register-block field.
C10_IdlePumpAsStated == [][IdlePumpStep => IdlePumpQuiet]_vars

\* C10 as amended: the same, for a call dispatched with no outbound deferral
\* pending (out_deferred_ack = out_deferred_req).
C10_IdlePump == [][(IdlePumpStep /\ hist.settled) => IdlePumpQuiet]_vars

C10_Witness ==
    /\ pc = "ret"
    /\ comms_reg # NULL
    /\ hist.idle
    /\ hist.settled
    /\ ~hist.outSig
    /\ env.nOut > 0
    /\ sent = <<>>
    /\ ret

\* align_down(addr, 0x400) = addr & ~0x3FF on the 32-bit value
AlignDown(addr) == addr - (addr % 1024)

\* comms_begin_session has returned to the main loop
BeginReturned == pc = "bs_done"

\* C11 as stated: begin_session(addr) places the block at addr & ~0x3FF for
\* every addr, and on return the first four bytes of the block read "PICO".
C11_PlacementAsStated ==
    BeginReturned =>
       /\ comms_reg_addr = AlignDown(fg.addr)
       /\ comms_reg = comms_reg_addr
       /\ rom[comms_reg].magic = MAGIC

\* C11 as amended: the block is placed at align_down of addr reduced to the
\* address pins of the ROM (addr & ADDR_MASK), which is addr & ~0x3FF for every
\* addr inside the ROM, and on return its first four bytes read "PICO".
C11_Placement ==
    BeginReturned =>
       /\ comms_reg_addr = AlignDown(fg.addr % (2 ^ N_ADDR_PINS))
       /\ (fg.addr \in 0..(2 ^ N_ADDR_PINS - 1) => comms_reg_addr = AlignDown(fg.addr))
       /\ comms_reg = comms_reg_addr
       /\ rom[comms_reg].magic = MAGIC

C11_Witness ==
    /\ BeginReturned
    /\ fg.addr = 4660
    /\ comms_reg_addr = 4096
    /\ rom[4096].magic = <<80, 73, 67, 79>>

\* comms_begin_session has returned from a call made while a session was in
\* place (no end_session in between), and the handler has not run during it
SecondBeginReturned ==
    /\ pc = "bs_done"
    /\ env.nBegin >= 2
    /\ ~hist.evt

RingsReset == is_empty(comms_out_fifo) /\ is_empty(comms_in_fifo)

\* C12 as stated: a second begin_session with no end_session and no bus event
\* in between leaves both rings empty and both reconciliation pairs equal.
C12_ResetLawAsStated ==
    SecondBeginReturned =>
       /\ RingsReset
       /\ comms_out_deferred_req = comms_out_deferred_ack
       /\ comms_in_empty_req = comms_in_empty_ack

\* C12 as amended: it leaves both rings empty, the outbound pair equal (0, 0),
\* and the inbound pair at req = 1, ack = 0: one inbound-empty event is pending,
\* so that the first byte admitted is published in in_byte.
C12_ResetLaw ==
    SecondBeginReturned =>
       /\ RingsReset
       /\ comms_out_deferred_req = 0
       /\ comms_out_deferred_ack = 0
       /\ comms_in_empty_req = 1
       /\ comms_in_empty_ack = 0

\* the first session had pushed and popped bytes before the second begin
C12_Witness ==
    /\ SecondBeginReturned
    /\ comms_out_fifo.head > 0
    /\ comms_in_fifo.head > 0
    /\ comms_in_fifo.tail > 0
    /\ RingsReset

\* the block of the session handle is initialised: outside the window between
\* the assignment of the handle and the writes that initialise the block
BlockInitialised == comms_reg # NULL /\ pc # "bs_regs"

\* the event source is armed for the block of the session handle
ArmedForBlock == armed /\ watch = comms_reg_addr /\ comms_reg = comms_reg_addr

\* a step that makes the block of the (unchanged) session handle show active = 1
ActivationStep ==
    /\ comms_reg # NULL
    /\ comms_reg' = comms_reg
    /\ Reg("active") # 1
    /\ rom'[comms_reg].active = 1

\* C13 as stated: in every state in which the session's block shows
\* active = 1, the block carries the magic "PICO" and the event source is armed
\* for that block.
C13_InitOrderAsStated ==
    (BlockInitialised /\ Reg("active") = 1) =>
       /\ Reg("magic") = MAGIC
       /\ ArmedForBlock

\* C13 as amended: active = 1 is written by the last step of begin_session
\* only, on a block that carries the magic and shows active = 0, with the event
\* source armed for it, and (if no event was handled meanwhile) with rings,
\* counters, pending, in_seq and out_seq still as reset; and from there until
\* end_session disarms the event source, a block that shows active = 1 carries
\* the magic and the event source is armed for it.
C13_InitOrder ==
    /\ [][ActivationStep =>
            /\ pc = "bs_active"
            /\ pc' = "bs_done"
            /\ Reg("magic") = MAGIC
            /\ Reg("active") = 0
            /\ ArmedForBlock
            /\ ~hist.evt =>
                  /\ RingsReset
                  /\ counters = <<0, 0, 1, 0>>
                  /\ Reg("pending") = 0
                  /\ Reg("in_seq") = 0
                  /\ Reg("out_seq") = 0]_vars
    /\ []((BlockInitialised /\ Reg("active") = 1 /\ pc # "es_active") =>
            /\ Reg("magic") = MAGIC
            /\ ArmedForBlock)

C13_Witness ==
    /\ pc = "bs_done"
    /\ env.nBegin = 2
    /\ Reg("active") = 1
    /\ Reg("magic") = MAGIC
    /\ ArmedForBlock
    /\ comms_reg # 4096

\* C14: end_session on an active session (1) disarms the event source, after
\* which no handler invocation follows, (2) then writes active = 0 into the
\* block, (3) then clears the session handle.
C14_TeardownOrder ==
    [][/\ pc = "es_programs" /\ pc' # pc =>
             /\ pc' = "es_active"
             /\ comms_reg # NULL /\ comms_reg' = comms_reg
             /\ ~armed'
             /\ rom'[comms_reg].active = rom[comms_reg].active
       /\ pc = "es_active" =>
             /\ pc' = "es_handle"
             /\ comms_reg # NULL /\ comms_reg' = comms_reg
             /\ ~armed /\ ~armed'
             /\ rom'[comms_reg].active = 0
             /\ UNCHANGED <<rings, counters>>
       /\ pc = "es_handle" =>
             /\ pc' = "es_done"
             /\ comms_reg # NULL /\ comms_reg' = NULL
             /\ ~armed /\ ~armed'
             /\ rom[comms_reg].active = 0
             /\ UNCHANGED <<rings, counters, rom>>
       /\ (armed /\ ~armed') => pc = "es_programs"
       /\ (comms_reg # NULL /\ comms_reg' = NULL) => pc = "es_handle"]_vars

\* end_session has run through on a session that was active
C14_Witness ==
    /\ pc = "es_done"
    /\ comms_reg = NULL
    /\ ~armed
    /\ watch # NULL
    /\ rom[watch].active = 0
    /\ rom[watch].magic = MAGIC
    /\ rom[watch].debug1 = 65285

\* the register blocks of the emulated storage that show active = 1
ActiveBlocks == {b \in Bases : rom[b].active = 1}

\* C15: starting a new session ends the prior one, so at every moment at most
\* one register block in the emulated storage shows active = 1.
C15_SingleSession == Cardinality(ActiveBlocks) <= 1

\* control is between begin_session's first write and its arming of the event
\* source, or between end_session's disarm and its clearing of the handle
AtomicWindow ==
    pc \in {"bs_clear_in", "bs_counters", "bs_ptr", "bs_regs", "bs_arm",
            "es_active", "es_handle"}

\* C16: the event handler never executes inside those windows (every step
\* taken there is the next step of the foreground), also when begin_session is
\* called while a previous session is still armed.
C16_BeginEndAtomic == [][AtomicWindow => pc' # pc]_vars

\* a step in which the handler serves an outbound access of a session
OutboundHandled == env'.nOut = env.nOut + 1 /\ comms_reg # NULL

\* C17: on an outbound signal the handler increments out_deferred_req and
\* leaves out_seq unchanged exactly when the outbound ring was already full
\* before the push; otherwise it increments out_seq and leaves out_deferred_req.
C17_DeferralPolicy ==
    [][OutboundHandled =>
          IF count(comms_out_fifo) = N
          THEN /\ comms_out_deferred_req' = (comms_out_deferred_req + 1) % W8
               /\ rom'[comms_reg].out_seq = rom[comms_reg].out_seq
          ELSE /\ rom'[comms_reg].out_seq = Inc32(rom[comms_reg].out_seq)
               /\ comms_out_deferred_req' = comms_out_deferred_req]_vars

\* C18: in every reachable state, for sessions of any length, the stored
\* (8-bit) counters satisfy out_deferred_ack <= out_deferred_req and
\* in_empty_ack <= in_empty_req.
C18_CounterOrdering ==
    /\ comms_out_deferred_ack <= comms_out_deferred_req
    /\ comms_in_empty_ack <= comms_in_empty_req

\* a step in which the handler serves a mailbox read
MailboxHandled == env'.nRead = env.nRead + 1

\* C19: a mailbox read issued by a target that has observed pending != 0 never
\* makes the handler pop the inbound ring while it is empty, for any
\* interleaving of the reads with comms_update.
C19_PopAvailability ==
    [][(MailboxHandled /\ comms_reg # NULL /\ Reg("pending") # 0) =>
          count(comms_in_fifo) # 0]_vars

\* the foreground is between two calls of comms_update, in an active session
BetweenCalls ==
    /\ pc \in {"main", "ret"}
    /\ comms_reg # NULL
    /\ Reg("active") = 1

\* C20: between calls of comms_update, pending != 0 if and only if the inbound
\* ring is non-empty, whether the calls returned true or false (stated here for
\* the targets that read the mailbox only when pending != 0).
C20_PendingMeaning ==
    (BetweenCalls /\ env.prof.polite) =>
       (Reg("pending") # 0 <=> ~is_empty(comms_in_fifo))

\* the lost wake-up: a call that returned true has left a byte in the ring with
\* pending = 0, the only mailbox read of the run having been made during that
\* call, when pending was 1 and the ring held the byte of the previous call
C20_LostWakeup ==
    /\ pc = "ret" /\ ret /\ fg.len = 1
    /\ env.nCalls = 2 /\ env.nRead = 1 /\ hist.rdSig /\ hist.dataCalls = 2
    /\ count(comms_in_fifo) = 1
    /\ Reg("pending") = 0

\* C21: every CommsData chunk that comms_update hands to the transport carries
\* at least 1 and at most MAX_PKT_PAYLOAD bytes, whatever outbound accesses
\* arrive while the ring is drained; the packets built from them carry exactly
\* those bytes.
C21_ChunkSize ==
    /\ \A i \in 1..Len(hist.chunks) : hist.chunks[i] \in 1..MAX_PKT_PAYLOAD
    /\ \A i \in 1..Len(sent) :
          sent[i].type = "CommsData" => Len(sent[i].payload) \in 1..MAX_PKT_PAYLOAD
    /\ (InCall \/ pc = "ret") =>
          /\ Len(sent) = Len(hist.chunks)
          /\ \A i \in 1..Len(sent) : Len(sent[i].payload) = hist.chunks[i]

\* a full chunk and a partial one, an outbound access having arrived during the call
C21_Witness ==
    /\ pc = "ret"
    /\ hist.outSig
    /\ Len(hist.chunks) = 2
    /\ hist.chunks[1] = MAX_PKT_PAYLOAD
    /\ hist.chunks[2] = 1

\* C22: every call of comms_update eventually returns, provided each transport
\* send completes, whatever the target does on the bus, a target that keeps
\* issuing outbound accesses included.
C22_PumpReturns == (pc = "cu_entry") ~> (pc = "ret")

\* the same for a target that stops at some point: the call returns unless
\* outbound accesses keep arriving for ever
C22_ReturnsUnlessFlooded ==
    ([]<><<FloodAccess>>_vars) \/ ((pc = "cu_entry") ~> (pc = "ret"))

IsPrefix(s, t) == Len(s) <= Len(t) /\ s = SubSeq(t, 1, Len(s))

\* a session with a target that reads by in_seq, none of whose calls has failed
SeqCase ==
    /\ env.prof.bySeq
    /\ comms_reg # NULL
    /\ ~hist.failed

\* C23: if the target issues a mailbox read only when in_seq differs from the
\* value it saw at its previous read (initially 0), then for any interleaving of
\* its reads with comms_update calls that return true, the in_byte values it
\* has read are the admitted bytes in order, none lost, duplicated or reordered.
C23_ExactlyOnce == SeqCase => IsPrefix(hist.got, hist.all)

\* the bytes comms_update has taken from the outbound ring during the call, in
\* the order it hands them to the transport: those sent and, until the final
\* flush, those waiting in outbytes
Taken == Payloads(sent) \o (IF pc = "ret" THEN <<>> ELSE fg.outbytes)

\* C24: if the target issues its next outbound access only after it has seen
\* out_seq change following its previous one, the outbound ring never holds more
\* than N bytes, and the bytes handed to the transport are the bytes signalled,
\* in order: the k-th byte popped in the session is the k-th byte signalled.
C24_BackPressure ==
    (env.prof.paced /\ comms_reg # NULL) =>
       /\ count(comms_out_fifo) \in 0..N
       /\ (InCall \/ pc = "ret") =>
             /\ Len(Taken) <= hist.nPop
             /\ \A i \in 1..Len(Taken) :
                   Taken[i] = OutByte(hist.nPop - Len(Taken) + i - 1)

\* the first session of the run is active: every outbound access of the run
\* was handled in it
FirstSessionActive ==
    /\ comms_reg # NULL
    /\ Reg("active") = 1
    /\ env.nBegin = 1

\* deferrals not yet reconciled, modulo the width of the counters
Deferred == (comms_out_deferred_req - comms_out_deferred_ack) % W8

\* C25: in every state of an active session, the handler pre-empting the
\* foreground between the load and the store of its out_seq++, out_seq plus the
\* deferrals not yet reconciled equals the number of outbound signals handled
\* since begin_session: no increment of out_seq is lost or applied twice.
C25_OutSeqAccounting ==
    FirstSessionActive => Reg("out_seq") + Deferred = env.nOut

\* C26: every byte that comms_update pops from the outbound ring is handed to
\* the transport before comms_update returns, whether it returns true or false.
C26_NoLossInPump ==
    (pc = "ret" /\ comms_reg # NULL) => Payloads(sent) = hist.popped

\* C27: comms_update never returns false when the inbound ring has free
\* capacity at the moment a byte is due for admission: the step that gives up
\* is taken on a full ring only, whatever time has elapsed.
C27_TimeoutOnlyBlocked ==
    [][(pc = "in_wait" /\ pc' = "ret" /\ ~ret') => is_full(comms_in_fifo)]_vars

\* C28: with the handler pre-empting the foreground between the two memory
\* accesses of a push or a pop, and as long as no push happens at count() = N
\* and no pop at count() = 0, every pop on either ring returns the oldest byte
\* pushed and not yet popped: the popped sequence is a prefix of the pushed one.
C28_SpscSafety ==
    [][/\ (pc = "uco_pop" /\ pc' = "uco_drain" /\ hist.ook) =>
             /\ hist.oq # <<>>
             /\ fg.v = Head(hist.oq)
       /\ (MailboxHandled /\ hist.iok /\ ~is_empty(comms_in_fifo)) =>
             /\ hist.iq # <<>>
             /\ pop_read(comms_in_fifo) = Head(hist.iq)]_vars

\* the handler has popped the last queued byte between the data write and the
\* head increment of a push by the foreground
C28_Witness ==
    /\ pc = "in_push_inc"
    /\ hist.mid
    /\ hist.iok
    /\ env.nRead > 0
    /\ is_empty(comms_in_fifo)
    /\ comms_in_fifo.data[comms_in_fifo.head % N] = DataAt(fg.data, fg.incount)

\* inbound-empty events not yet reconciled, modulo the width of the counters
Gap == (comms_in_empty_req - comms_in_empty_ack) % W8

\* C29: each time comms_update finishes the reconcile step that follows the
\* push of an inbound byte, in_empty_ack = in_empty_req; in_empty_req is never
\* more than one ahead of in_empty_ack, for any interleaving of mailbox reads
\* with the pump.
C29_GapClosed ==
    /\ [](Gap <= 1)
    /\ [][(pc \in {"in_recon", "in_recon_st"} /\ pc' = "in_loop") =>
             comms_in_empty_ack' = comms_in_empty_req']_vars

BlockSize == 1024

\* 32-bit addresses at the edges of the block, of the ROM and of the word
AddrSamples ==
    {0, 1, BlockSize - 1, BlockSize, 4660, ROM_SIZE - BlockSize - 1, ROM_SIZE - BlockSize,
     ROM_SIZE - 1, ROM_SIZE, ROM_SIZE + 4660, INT32_MAX, (-INT32_MAX) - 1, -BlockSize, -1}

InsideRom(base) ==
    /\ base % BlockSize = 0
    /\ base >= 0
    /\ base + BlockSize <= ROM_SIZE

\* C31: for every 32-bit addr passed to begin_session, addr_base is a multiple
\* of 1024 and addr_base + 1024 <= ROM_SIZE, so every field of the block the
\* session handle points to lies inside the emulated ROM buffer.
C31_BlockInsideRom ==
    /\ \A a \in AddrSamples : InsideRom(AlignBase(a))
    /\ comms_reg # NULL => (InsideRom(comms_reg) /\ comms_reg = comms_reg_addr)

\* the block of a session begun at 0xFFFFFFFF is the last one of the ROM
C31_Witness ==
    /\ BeginReturned
    /\ fg.addr = -1
    /\ Reg("active") = 1
    /\ comms_reg + BlockSize = ROM_SIZE

(***************************************************************************)
(* The outer loop of main  (firmware/main.cpp:368-379): the connection to  *)
(* the host comes and goes while sessions are started, used and ended.     *)
(* The run starts where main enters the outer loop.                        *)
(***************************************************************************)
\* Both directions at once, sessions restarted and moved, the link dropped at
\* any pass of the inner loop.
ConnProfile ==
    [name |-> "conn", seed |-> 65, bursts |-> {}, out |-> MixSignals, rd |-> MixSignals,
     rdInCall |-> TRUE, polite |-> FALSE, other |-> TRUE, calls |-> MaxCalls - 1,
     begins |-> MixBegins, bufs |-> {<<65, 66>>}, touts |-> {0}, addrs |-> {4660, -1},
     steady |-> FALSE, bySeq |-> FALSE, paced |-> FALSE]

ConnInit ==
    /\ comms_out_fifo = FIFO
    /\ comms_in_fifo = FIFO
    /\ comms_out_deferred_req = 0
    /\ comms_out_deferred_ack = 0
    /\ comms_in_empty_req = 0
    /\ comms_in_empty_ack = 0
    /\ comms_reg = NULL
    /\ comms_reg_addr = 0
    /\ rom = [b \in Bases |-> CommsRegisters]
    /\ armed = FALSE
    /\ watch = NULL
    /\ pc = "outer"
    /\ fg = FgInit
    /\ ret = TRUE
    /\ sent = <<>>
    /\ now = 0
    /\ hist = HistInit
    /\ env = [prof |-> ConnProfile, burst |-> 0, left |-> 0, nOut |-> 0, nRead |-> 0,
              nCalls |-> 0, nBegin |-> 0]
    /\ fifo = FIFO
    /\ fifo_hist = FifoHistInit
    /\ PtrRest /\ LinkRest /\ BootRest /\ DebugRest

\* main.cpp:371-372  rom_offset = 0; comms_end_session();
\* faulty variant: the outer loop goes straight to pl_wait_for_connection
OuterReset_skip ==
    /\ Quiet
    /\ pc = "outer"
    /\ rom_offset' = 0
    /\ fg' = [FgInit EXCEPT !.from = "outer"]
    /\ pc' = "wait"
    /\ UNCHANGED <<rings, counters, session, rom, ret, sent, now, env, hist,
                   fifo, fifo_hist, ptr_hist, linkvars, bootvars, dbgvars>>

OuterReset ==
    /\ Quiet
    /\ pc = "outer"
    /\ rom_offset' = 0
    /\ fg' = [FgInit EXCEPT !.from = "outer"]
    /\ pc' = "es_entry"
    /\ UNCHANGED <<rings, counters, session, rom, ret, sent, now, env, hist,
                   fifo, fifo_hist, ptr_hist, linkvars, bootvars, dbgvars>>

\* main.cpp:374-376  pl_wait_for_connection() returns: the host has opened the
\* port, the input is flushed (pico_link.cpp:106-117), the preamble and
\* pl_send_debug("Connected", 1, 2) are sent
Connect ==
    /\ pc = "wait"
    /\ incoming_count' = 0
    /\ sent' = <<[type |-> "Hello", payload |-> <<>>], [type |-> "Debug", payload |-> <<>>]>>
    /\ pc' = "main"
    /\ UNCHANGED <<rings, counters, session, rom, fg, ret, now, env, hist,
                   fifo, fifo_hist, ptrvars, incoming_buffer, usb, bootvars, dbgvars>>

\* main.cpp:379  while (pl_is_connected()) finds the connection lost
Disconnect ==
    /\ Quiet
    /\ pc = "main"
    /\ pc' = "outer"
    /\ hist' = [hist EXCEPT !.dropped = (comms_reg # NULL), !.fresh = FALSE]
    /\ UNCHANGED <<rings, counters, session, rom, fg, ret, sent, now, env, harness>>

ConnNext ==
    \/ OuterReset \/ Connect \/ Disconnect
    \/ OutboundAccess \/ MailboxRead \/ OtherAccess
    \/ MainPoll \/ PktCommsData \/ MainResult \/ PktCommsStart \/ PktCommsEnd
    \/ BsClearOut \/ BsClearIn \/ BsCounters \/ BsPtr \/ BsRegs \/ BsArm \/ BsActive \/ BsDone
    \/ EsEntry \/ EsPrograms \/ EsActive \/ EsHandle \/ EsDone
    \/ CuEntry \/ UcoRec \/ UcoDrain \/ UcoPop
    \/ InLoop \/ InWait \/ InPushWr \/ InPushInc \/ InRecon \/ InReconLd \/ InReconSt

ConnSpec == ConnInit /\ [][ConnNext]_vars

\* C32: whenever the main loop is waiting for a USB connection, at start-up
\* and after every loss of the connection, no session is active: the session
\* handle is null, the bus event source is disarmed and the register block of
\* the session that was ended shows active = 0.
C32_NoSessionWhileWaiting ==
    pc = "wait" =>
        /\ comms_reg = NULL
        /\ ~armed
        /\ watch # NULL => rom[watch].active = 0

\* the connection was lost during a session, and the loop waits again
C32_Witness ==
    /\ pc = "wait"
    /\ hist.dropped
    /\ env.nBegin = MixBegins
    /\ watch # NULL
    /\ rom[watch].magic = MAGIC

(***************************************************************************)
(* The ROM pointer  (firmware/main.cpp:393-425): SetPointer, Write and     *)
(* Read packets in any order, the comms channel at rest.  rom_offset and   *)
(* the locals of the handlers are uint32_t, held as in Inc32 above.        *)
(***************************************************************************)
MaxPtrOps == 4

\* the state of the comms channel and of the stand-alone FIFO
commsvars == <<rings, counters, session, rom, pc, fg, ret, sent, now, env, hist,
               fifo, fifo_hist>>

\* the comms channel at rest: connected, no session, nothing in flight
CommsRest ==
    /\ MainInit
    /\ env = [prof |-> OutProfile, burst |-> 0, left |-> 0, nOut |-> 0, nRead |-> 0,
              nCalls |-> 0, nBegin |-> 0]
    /\ fifo = FIFO
    /\ fifo_hist = FifoHistInit

\* a + b modulo 2^32, for 0 <= b < 2^31
Add32(a, b) ==
    IF a > INT32_MAX - b THEN ((((a - INT32_MAX) - 1) + b) - INT32_MAX) - 1 ELSE a + b

\* a <= b as unsigned values
LeU(a, b) == IF (a >= 0) = (b >= 0) THEN a <= b ELSE a >= 0

\* MIN(a, b) on unsigned values
MinU(a, b) == IF LeU(a, b) THEN a ELSE b

\* the four payload bytes of a SetPointer packet: values at the edges of the
\* ROM and of the 32-bit word
PtrSamples ==
    {0, 1, ROM_SIZE - MAX_PKT_PAYLOAD - 1, ROM_SIZE - MAX_PKT_PAYLOAD, ROM_SIZE - 1,
     ROM_SIZE, ROM_SIZE + 1, INT32_MAX, (-INT32_MAX) - 1, -MAX_PKT_PAYLOAD - 1,
     -MAX_PKT_PAYLOAD, -16, -1}

\* req->size of a Write packet
WriteSizes == {0, 1, MAX_PKT_PAYLOAD}

PtrInit ==
    /\ CommsRest
    /\ PtrRest /\ LinkRest /\ BootRest /\ DebugRest

\* main.cpp:393-397  memcpy(&rom_offset, req->payload, sizeof(uint32_t))
PktSetPointer ==
    /\ ptr_hist.n < MaxPtrOps
    /\ \E v \in PtrSamples : rom_offset' = v
    /\ ptr_hist' = [ptr_hist EXCEPT !.op = "set", !.len = 0, !.n = @ + 1,
                                     !.wild = @ \/ ~LeU(rom_offset', ROM_SIZE)]
    /\ UNCHANGED <<commsvars, linkvars, bootvars, dbgvars>>

\* main.cpp:408  if ((offset + req->size) > ROM_SIZE)
WriteRejected(offset, size) == ~LeU(Add32(offset, size), ROM_SIZE)

\* main.cpp:405-416  a Write packet of req->size bytes
PktWrite ==
    /\ ptr_hist.n < MaxPtrOps
    /\ \E size \in WriteSizes :
          IF WriteRejected(rom_offset, size)
          THEN /\ ptr_hist' = [ptr_hist EXCEPT !.op = "rejected", !.len = 0, !.n = @ + 1]
               /\ UNCHANGED rom_offset
          ELSE /\ ptr_hist' = [ptr_hist EXCEPT !.op = "write", !.lo = rom_offset,
                                                !.len = size, !.n = @ + 1]
               /\ rom_offset' = Add32(rom_offset, size)
    /\ UNCHANGED <<commsvars, linkvars, bootvars, dbgvars>>

\* main.cpp:421  MIN(MAX_PKT_PAYLOAD, ROM_SIZE - offset)
ReadSize(offset) == MinU(MAX_PKT_PAYLOAD, Sub32(ROM_SIZE, offset))

\* main.cpp:418-425  a Read packet; pl_send_payload copies MIN(len,
\* MAX_PKT_PAYLOAD) = len bytes from rom_get_buffer() + offset
PktRead ==
    /\ ptr_hist.n < MaxPtrOps
    /\ ptr_hist' = [ptr_hist EXCEPT !.op = "read", !.lo = rom_offset,
                                     !.len = ReadSize(rom_offset), !.n = @ + 1]
    /\ rom_offset' = Add32(rom_offset, ReadSize(rom_offset))
    /\ UNCHANGED <<commsvars, linkvars, bootvars, dbgvars>>

PtrNext == PktSetPointer \/ PktWrite \/ PktRead

PtrSpec == PtrInit /\ [][PtrNext]_vars

\* the last access to the ROM buffer touched bytes, all at offsets in [0, ROM_SIZE)
AccessInsideRom ==
    ptr_hist.len > 0 => (ptr_hist.lo >= 0 /\ ptr_hist.lo <= ROM_SIZE - ptr_hist.len)

\* C33: for every sequence of SetPointer, Write and Read packets, SetPointer
\* taking any 32-bit value, every byte of the ROM buffer written by Write or
\* read by Read lies at an offset in [0, ROM_SIZE).
C33_PointerBounds == AccessInsideRom

\* C33, what the code does keep: as long as no SetPointer has given a value
\* above ROM_SIZE, every access lies inside the ROM buffer and the pointer
\* stays at or below ROM_SIZE.
C33_BoundsWhileInside ==
    ~ptr_hist.wild => (AccessInsideRom /\ LeU(rom_offset, ROM_SIZE))

\* a Write that ends at the last byte of the ROM, a Read at the end of the ROM
C33_Witness ==
    /\ ~ptr_hist.wild
    /\ ptr_hist.op = "read"
    /\ ptr_hist.lo = ROM_SIZE
    /\ ptr_hist.len = 0
    /\ ptr_hist.n > 2

(***************************************************************************)
(* Packet reception  (firmware/pico_link.cpp:125-162, main.cpp:387-582):   *)
(* the host's byte stream reaches the CDC receive queue byte by byte, at   *)
(* any moment, so that a call of pl_poll finds any number of bytes there;  *)
(* the inner loop of main calls pl_poll and, when it has returned a        *)
(* packet, pl_consume_packet.  The connection is kept throughout.          *)
(***************************************************************************)
\* sizeof(Packet), pico_link.h:47-53
PacketSize == 32

MaxStreamPackets == 3

\* bytes the CDC receive queue holds in the model: more than the receive buffer
MaxCdc == 34

\* the size fields of the packets the host sends: legal ones and one above
\* MAX_PKT_PAYLOAD
SizeSamples == {0, 1, MAX_PKT_PAYLOAD, MAX_PKT_PAYLOAD + 1}

\* the k-th packet of a stream with size field n: type, size, payload
PacketBytes(k, n) == <<80 + k, n>> \o [i \in 1..n |-> (64 * k + i) % W8]

RECURSIVE Flatten(_)
\* the bytes of a sequence of packets, in order
Flatten(ps) == IF ps = <<>> THEN <<>> ELSE Head(ps) \o Flatten(Tail(ps))

\* the streams of the host: up to MaxStreamPackets packets
Streams ==
    UNION {{[k \in 1..n |-> PacketBytes(k, sz[k])] : sz \in [1..n -> SizeSamples]} :
           n \in 1..MaxStreamPackets}

RxInit ==
    /\ CommsRest
    /\ PtrRest /\ BootRest /\ DebugRest
    /\ incoming_buffer = [i \in 0..(PacketSize - 1) |-> 0]
    /\ incoming_count = 0
    /\ \E ps \in Streams :
          usb = [stream |-> Flatten(ps), cdc |-> <<>>, req |-> FALSE, got |-> <<>>,
                 pkts |-> ps, all |-> Flatten(ps)]

\* one more byte of the stream has arrived in the CDC receive queue
UsbArrive ==
    /\ usb.stream # <<>>
    /\ Len(usb.cdc) < MaxCdc
    /\ usb' = [usb EXCEPT !.stream = Tail(@), !.cdc = Append(@, Head(usb.stream))]
    /\ UNCHANGED <<commsvars, ptrvars, incoming_buffer, incoming_count, bootvars, dbgvars>>

\* pico_link.cpp:129-136  the bytes pl_poll moves to the receive buffer
ReadCount(cnt, avail) == Min(avail, PacketSize - cnt)

\* pico_link.cpp:138-146  the test of pl_poll for a complete packet
\* faulty variant: the header is not counted
Complete_noheader(buf, cnt) == cnt >= 2 /\ buf[1] <= cnt

Complete(buf, cnt) == cnt >= 2 /\ buf[1] + 2 <= cnt

\* the packet at the start of the receive buffer
PacketAt(buf) == [i \in 1..(buf[1] + 2) |-> buf[i - 1]]

\* pico_link.cpp:125-149  pl_poll, called by the inner loop of main (main.cpp:387)
PlPoll ==
    /\ ~usb.req
    /\ LET n     == ReadCount(incoming_count, Len(usb.cdc))
           buf   == [i \in 0..(PacketSize - 1) |->
                        IF i >= incoming_count /\ i < incoming_count + n
                        THEN usb.cdc[i - incoming_count + 1] ELSE incoming_buffer[i]]
           cnt   == incoming_count + n
       IN  /\ incoming_buffer' = buf
           /\ incoming_count' = cnt
           /\ usb' = [usb EXCEPT
                        !.cdc = SubSeq(@, n + 1, Len(@)),
                        !.req = Complete(buf, cnt),
                        !.got = IF Complete(buf, cnt) THEN Append(@, PacketAt(buf)) ELSE @]
    /\ UNCHANGED <<commsvars, ptrvars, bootvars, dbgvars>>

\* pico_link.cpp:153  used = pkt->size + 2
Used(buf) == buf[1] + 2

\* pico_link.cpp:151-162  pl_consume_packet, after the packet has been handled
\* (main.cpp:581)
PlConsume ==
    /\ usb.req
    /\ LET used      == Used(incoming_buffer)
           remaining == incoming_count - used
       IN  /\ incoming_buffer' = [i \in 0..(PacketSize - 1) |->
                                     IF i < remaining THEN incoming_buffer[i + used]
                                     ELSE incoming_buffer[i]]
           /\ incoming_count' = remaining
    /\ usb' = [usb EXCEPT !.req = FALSE]
    /\ UNCHANGED <<commsvars, ptrvars, bootvars, dbgvars>>

RxNext == UsbArrive \/ PlPoll \/ PlConsume

RxSpec == RxInit /\ [][RxNext]_vars

\* every size field of the stream is at most MAX_PKT_PAYLOAD
LegalStream == \A k \in 1..Len(usb.pkts) : usb.pkts[k][2] <= MAX_PKT_PAYLOAD

\* the bytes held in the receive buffer
Buffered == [i \in 1..incoming_count |-> incoming_buffer[i - 1]]

\* the packets returned and consumed
Consumed == IF usb.req THEN SubSeq(usb.got, 1, Len(usb.got) - 1) ELSE usb.got

\* C34: for any split of the byte stream into reads and packets with size at
\* most MAX_PKT_PAYLOAD, the packets returned by pl_poll are the packets of
\* the stream, in order and all of them once the stream has been taken; a
\* packet is returned only when its header and its size payload bytes are
\* buffered; consuming removes size + 2 bytes and keeps what follows in order.
C34_Reassembly ==
    LegalStream =>
        /\ IsPrefix(usb.got, usb.pkts)
        /\ usb.req => incoming_count >= incoming_buffer[1] + 2
        /\ Flatten(Consumed) \o Buffered \o usb.cdc \o usb.stream = usb.all
        /\ (usb.stream = <<>> /\ usb.cdc = <<>> /\ ~usb.req
               /\ ~Complete(incoming_buffer, incoming_count)) => usb.got = usb.pkts

\* three packets have been returned, the second one while the third was
\* already in the buffer behind it, the buffer having been full on the way
C34_Witness ==
    /\ LegalStream
    /\ Len(usb.pkts) = MaxStreamPackets
    /\ usb.got = usb.pkts
    /\ ~usb.req
    /\ incoming_count = 0
    /\ usb.pkts[1][2] = MAX_PKT_PAYLOAD
    /\ usb.pkts[2][2] = 1

\* the receive buffer is full and pl_poll returns nullptr: it has no space to
\* read into (pico_link.cpp:129-136) and finds no complete packet
Wedged ==
    /\ ~usb.req
    /\ incoming_count = PacketSize
    /\ ~Complete(incoming_buffer, incoming_count)

\* C35: for any incoming byte stream, including one with a header whose size
\* field exceeds MAX_PKT_PAYLOAD, the receiver does not reach a state in
\* which the receive buffer is full and pl_poll returns nullptr on every
\* later call.
C35_ReceptionProgress == ~Wedged

\* C35, the state is final: no call of pl_poll and no arrival of bytes leads
\* out of it.
C35_WedgeIsPermanent == [][Wedged => Wedged']_vars

\* C35, what the code does keep: a stream whose size fields are all at most
\* MAX_PKT_PAYLOAD never leaves the buffer full without a packet to return.
C35_ProgressWhenLegal == LegalStream => ~Wedged

(***************************************************************************)
(* Firmware update  (firmware/main.cpp:362, 435-458,                       *)
(* pico_fota_bootloader/src/bootloader_app.c:165-203, pico_fota_bootloader *)
(* .c:76-158, 249-304).  The flash holds the application slot, the         *)
(* download slot and the flags of the info sector.  The bootloader runs    *)
(* after every reset, one flash operation at a time, and hands over to the *)
(* image in the application slot; the application commits and then serves  *)
(* OTACommit packets.  A reset (pfb_perform_update, a crash of the image,  *)
(* a power cycle) comes while the application or the USB boot mode has     *)
(* control; a run of the bootloader, once started, reaches its end.        *)
(***************************************************************************)
\* the content of a slot: erased, this firmware, a newer build of it, an
\* image that passes the hash check but never reaches pfb_firmware_commit,
\* and bytes whose digest does not match
EMPTY == 0
FIRMWARE == 1
UPDATE == 2
CRASHING == 3
CORRUPT == 4

\* what the host has uploaded to the ROM buffer before OTACommit
HostImages == {UPDATE, CRASHING, CORRUPT}

\* the image calls pfb_firmware_commit at start-up (main.cpp:362)
Commits(img) == img \in {FIRMWARE, UPDATE}

\* bootloader_app.c:67-69  __FLASH_INFO_SHOULD_ROLLBACK == PFB_SHOULD_ROLLBACK_MAGIC
\* faulty variant: the flag is not looked at
should_rollback_never(f) == FALSE

should_rollback(f) == f.rollback

\* bootloader_app.c:71-73  __FLASH_INFO_IS_DOWNLOAD_SLOT_VALID == PFB_SHOULD_SWAP_MAGIC
has_firmware_to_swap(f) == f.valid

\* bootloader_app.c:83-117  the two slots exchange their content
swap_images(f) == [f EXCEPT !.app = f.dl, !.dl = f.app]

\* pico_fota_bootloader.c:156-158
pfb_firmware_commit(f) == [f EXCEPT !.rollback = FALSE]

\* bootloader_app.c:146-150  the reset vector of the application slot is not in flash
is_application_slot_empty(f) == f.app = EMPTY

\* pico_fota_bootloader.c:249-304  0 when the digest stored at the end of the
\* image matches; without PFB_WITH_SHA256_HASHING and PFB_WITH_CRC32_HASHING
\* the function only returns 0
pfb_firmware_hash_check(f, sizeOk, hashing) ==
    IF hashing /\ (~sizeOk \/ f.dl \in {CORRUPT, EMPTY}) THEN 1 ELSE 0

\* main.cpp:445  if (pfb_firmware_hash_check(size))
\* faulty variant: the result is not looked at
CheckFailed_never(r) == FALSE

CheckFailed(r) == r # 0

\* History of the update for the properties:
\*   branch     the branch of main taken by the bootloader run in progress
\*              or last completed
\*   check      the result of the last pfb_firmware_hash_check
\*   prev       the image that was in the application slot before the last
\*              swap-in
\*   pending    a new image has been swapped in and the application has not
\*              called pfb_firmware_commit since
\*   committed  the application has called pfb_firmware_commit since the last
\*              swap-in
\*   expect     the device was reset while pending
\*   failed     the last OTACommit failed its check and the application
\*              has not been started since
\*   keep       the image in the application slot at that OTACommit
BootStart(h) ==
    [pc |-> "b_entry", hashing |-> h, img |-> EMPTY, sizeOk |-> TRUE, branch |-> "none",
     check |-> 0, prev |-> EMPTY, pending |-> FALSE, committed |-> FALSE,
     expect |-> FALSE, failed |-> FALSE, keep |-> EMPTY]

\* the device as programmed: this firmware in the application slot, the
\* download slot and the info sector erased; the build with or without hashing
BootSpecInit ==
    /\ CommsRest
    /\ PtrRest /\ LinkRest /\ DebugRest
    /\ flash = [app |-> FIRMWARE, dl |-> EMPTY, valid |-> FALSE, rollback |-> FALSE,
                swapped |-> FALSE, after |-> FALSE]
    /\ \E h \in BOOLEAN : boot = BootStart(h)

BootRest_vars == <<commsvars, ptrvars, linkvars, dbgvars>>

\* bootloader_app.c:171-187  the branch of main
BlDecide ==
    /\ boot.pc = "b_entry"
    /\ LET b == IF should_rollback(flash) THEN "rollback"
                ELSE IF has_firmware_to_swap(flash) THEN "swap" ELSE "nothing"
       IN  boot' = [boot EXCEPT !.branch = b,
                                 !.pc = IF b = "rollback" THEN "rb_swap"
                                        ELSE IF b = "swap" THEN "sw_swap" ELSE "no_commit"]
    /\ UNCHANGED <<flash, BootRest_vars>>

\* bootloader_app.c:173  swap_images() of the rollback
RbSwap ==
    /\ boot.pc = "rb_swap"
    /\ flash' = swap_images(flash)
    /\ boot' = [boot EXCEPT !.pc = "rb_commit", !.pending = FALSE]
    /\ UNCHANGED BootRest_vars

\* bootloader_app.c:174  pfb_firmware_commit()
RbCommit ==
    /\ boot.pc = "rb_commit"
    /\ flash' = pfb_firmware_commit(flash)
    /\ boot' = [boot EXCEPT !.pc = "rb_marks"]
    /\ UNCHANGED BootRest_vars

\* bootloader_app.c:175-176  mark_has_no_new_firmware(); mark_is_after_rollback()
RbMarks ==
    /\ boot.pc = "rb_marks"
    /\ flash' = [flash EXCEPT !.swapped = FALSE, !.after = TRUE]
    /\ boot' = [boot EXCEPT !.pc = "b_invalid"]
    /\ UNCHANGED BootRest_vars

\* bootloader_app.c:179  swap_images() of the update
SwSwap ==
    /\ boot.pc = "sw_swap"
    /\ flash' = swap_images(flash)
    /\ boot' = [boot EXCEPT !.pc = "sw_marks", !.prev = flash.app, !.pending = TRUE,
                             !.committed = FALSE]
    /\ UNCHANGED BootRest_vars

\* bootloader_app.c:180-181  mark_pico_has_new_firmware(); mark_is_not_after_rollback()
SwMarks ==
    /\ boot.pc = "sw_marks"
    /\ flash' = [flash EXCEPT !.swapped = TRUE, !.after = FALSE]
    /\ boot' = [boot EXCEPT !.pc = "sw_should"]
    /\ UNCHANGED BootRest_vars

\* bootloader_app.c:182  mark_should_rollback()
SwShould ==
    /\ boot.pc = "sw_should"
    /\ flash' = [flash EXCEPT !.rollback = TRUE]
    /\ boot' = [boot EXCEPT !.pc = "b_invalid"]
    /\ UNCHANGED BootRest_vars

\* bootloader_app.c:185-186  pfb_firmware_commit(); mark_has_no_new_firmware()
NoSwap ==
    /\ boot.pc = "no_commit"
    /\ flash' = [pfb_firmware_commit(flash) EXCEPT !.swapped = FALSE]
    /\ boot' = [boot EXCEPT !.pc = "b_invalid"]
    /\ UNCHANGED BootRest_vars

\* bootloader_app.c:189  pfb_mark_download_slot_as_invalid()
BlInvalid ==
    /\ boot.pc = "b_invalid"
    /\ flash' = [flash EXCEPT !.valid = FALSE]
    /\ boot' = [boot EXCEPT !.pc = "b_jump"]
    /\ UNCHANGED BootRest_vars

\* bootloader_app.c:190-200  USB boot mode for an empty slot, else the jump
\* to the application
BlJump ==
    /\ boot.pc = "b_jump"
    /\ boot' = [boot EXCEPT !.pc = IF is_application_slot_empty(flash) THEN "bootsel"
                                   ELSE "a_init",
                             !.failed = FALSE, !.expect = FALSE]
    /\ UNCHANGED <<flash, BootRest_vars>>

\* main.cpp:362  pfb_firmware_commit() at the start of the application
AppCommit ==
    /\ boot.pc = "a_init"
    /\ Commits(flash.app)
    /\ flash' = pfb_firmware_commit(flash)
    /\ boot' = [boot EXCEPT !.pc = "a_run", !.pending = FALSE, !.committed = TRUE]
    /\ UNCHANGED BootRest_vars

\* a reset while the application or the USB boot mode has control
Reset ==
    /\ boot.pc \in {"a_init", "a_run", "bootsel", "ota_commit", "ota_erase", "ota_write",
                    "ota_check", "ota_mark"}
    /\ boot' = [boot EXCEPT !.pc = "b_entry", !.expect = boot.pending]
    /\ UNCHANGED <<flash, BootRest_vars>>

\* main.cpp:435-439  an OTACommit packet: the image and its size as uploaded
OtaStart ==
    /\ boot.pc = "a_run"
    /\ \E img \in HostImages, ok \in BOOLEAN :
          boot' = [boot EXCEPT !.pc = "ota_commit", !.img = img, !.sizeOk = ok,
                                !.keep = flash.app]
    /\ UNCHANGED <<flash, BootRest_vars>>

\* main.cpp:441, pico_fota_bootloader.c:127  pfb_initialize_download_slot:
\* pfb_firmware_commit()
OtaInitCommit ==
    /\ boot.pc = "ota_commit"
    /\ flash' = pfb_firmware_commit(flash)
    /\ boot' = [boot EXCEPT !.pc = "ota_erase"]
    /\ UNCHANGED BootRest_vars

\* pico_fota_bootloader.c:129-131  the download slot is erased
OtaErase ==
    /\ boot.pc = "ota_erase"
    /\ flash' = [flash EXCEPT !.dl = EMPTY]
    /\ boot' = [boot EXCEPT !.pc = "ota_write"]
    /\ UNCHANGED BootRest_vars

\* main.cpp:443, pico_fota_bootloader.c:88-119  the image is written, unless
\* its size is not a multiple of 256 or too large; the result is not used
OtaWrite ==
    /\ boot.pc = "ota_write"
    /\ flash' = [flash EXCEPT !.dl = IF boot.sizeOk THEN boot.img ELSE @]
    /\ boot' = [boot EXCEPT !.pc = "ota_check"]
    /\ UNCHANGED BootRest_vars

\* main.cpp:445-456  the check and the branch on its result
OtaCheck ==
    /\ boot.pc = "ota_check"
    /\ LET r == pfb_firmware_hash_check(flash, boot.sizeOk, boot.hashing)
       IN  boot' = [boot EXCEPT !.check = r,
                                 !.pc = IF CheckFailed(r) THEN "ota_fail" ELSE "ota_mark"]
    /\ UNCHANGED <<flash, BootRest_vars>>

\* main.cpp:448  pfb_perform_update() after "Hash Error": the watchdog resets
\* the device
OtaFailReboot ==
    /\ boot.pc = "ota_fail"
    /\ boot' = [boot EXCEPT !.pc = "b_entry", !.failed = TRUE, !.expect = boot.pending]
    /\ UNCHANGED <<flash, BootRest_vars>>

\* main.cpp:453  pfb_mark_download_slot_as_valid()
OtaMark ==
    /\ boot.pc = "ota_mark"
    /\ flash' = [flash EXCEPT !.valid = TRUE]
    /\ boot' = [boot EXCEPT !.pc = "ota_reboot"]
    /\ UNCHANGED BootRest_vars

\* main.cpp:455  pfb_perform_update()
OtaReboot ==
    /\ boot.pc = "ota_reboot"
    /\ boot' = [boot EXCEPT !.pc = "b_entry", !.expect = boot.pending]
    /\ UNCHANGED <<flash, BootRest_vars>>

BootNext ==
    \/ BlDecide \/ RbSwap \/ RbCommit \/ RbMarks \/ SwSwap \/ SwMarks \/ SwShould
    \/ NoSwap \/ BlInvalid \/ BlJump
    \/ AppCommit \/ Reset
    \/ OtaStart \/ OtaInitCommit \/ OtaErase \/ OtaWrite \/ OtaCheck \/ OtaFailReboot
    \/ OtaMark \/ OtaReboot

BootSpec == BootSpecInit /\ [][BootNext]_vars

\* the bootloader run in progress has chosen its branch
Decided == boot.pc \in {"rb_swap", "rb_commit", "rb_marks", "sw_swap", "sw_marks",
                        "sw_should", "no_commit", "b_invalid", "b_jump"}

\* C36: on an OTACommit packet the download slot is marked valid only after
\* pfb_firmware_hash_check has returned 0; when the check fails the device
\* resets with the slot not marked valid, and the bootloader then swaps no
\* images and starts the existing application.
C36_FailedUpdateNotInstalled ==
    /\ boot.pc = "ota_mark" => boot.check = 0
    /\ (flash.valid /\ boot.pc \in {"ota_reboot", "b_entry"}) => boot.check = 0
    /\ boot.pc = "ota_fail" => (boot.check # 0 /\ ~flash.valid)
    /\ boot.failed =>
          /\ ~flash.valid
          /\ flash.app = boot.keep
          /\ Decided => boot.branch = "nothing"
          /\ boot.pc \notin {"bootsel"}

\* a corrupt image was uploaded, the check failed, the device was reset and
\* the bootloader is about to start the application that requested the update
C36_Witness ==
    /\ boot.failed
    /\ boot.img = CORRUPT
    /\ boot.sizeOk
    /\ boot.pc = "b_jump"
    /\ flash.dl = CORRUPT
    /\ flash.app = UPDATE

DEBUG_FIFO_SIZE == 16

\* lengths of the formatted text of a dbg_print call
PrintLengths == {1, DEBUG_FIFO_SIZE - 1, DEBUG_FIFO_SIZE, DEBUG_FIFO_SIZE + 1}

\* History of the debug buffer for the properties:
\*   left     characters of the current dbg_print call not yet handed over
\*   idx      the index of debug_fifo written by the last debug_putc
\*   oob      a debug_putc has written at an index outside debug_fifo
\*   stalled  a debug_putc has found the buffer full and debug_flush has not
\*            started a transfer
DbgStart == [pc |-> "idle", left |-> 0, idx |-> 0, oob |-> FALSE, stalled |-> FALSE]

\* debug.c:95-100  debugd_init
DebugInit ==
    /\ CommsRest
    /\ PtrRest /\ LinkRest /\ BootRest
    /\ debug_fifo_count = 0
    /\ debug_enabled = FALSE
    /\ debug_xfer_in_progress = FALSE
    /\ dbg = DbgStart

DebugRest_vars == <<commsvars, ptrvars, linkvars, bootvars>>

\* debug.c:27-35  debug_flush: the buffer state [count, xfer] it leaves, where
\* claim is the result of usbd_edpt_claim
debug_flush(cnt, xfer, claim) ==
    IF ~debug_enabled \/ cnt = 0 \/ xfer \/ ~claim
    THEN [count |-> cnt, xfer |-> xfer]
    ELSE [count |-> 0, xfer |-> TRUE]

\* debug.c:42  debug_fifo[debug_fifo_count++] = c, the new count
putc_count(cnt) == (cnt + 1) % W8

\* debug.c:63-80  the host's SET_ENABLED request
SetEnabled ==
    /\ dbg.pc = "idle"
    /\ \E v \in BOOLEAN :
          /\ debug_enabled' = v
          /\ debug_fifo_count' = IF v THEN debug_fifo_count ELSE 0
    /\ UNCHANGED <<debug_xfer_in_progress, dbg, DebugRest_vars>>

\* debug.c:48-52  dbg_print with output enabled: vfctprintf starts
DbgPrint ==
    /\ dbg.pc = "idle"
    /\ debug_enabled
    /\ \E n \in PrintLengths : dbg' = [dbg EXCEPT !.pc = "putc", !.left = n]
    /\ UNCHANGED <<debug_fifo_count, debug_enabled, debug_xfer_in_progress, DebugRest_vars>>

\* debug.c:38-46  debug_putc for the next character
DebugPutc ==
    /\ dbg.pc = "putc"
    /\ \E claim \in BOOLEAN :
          LET cnt == putc_count(debug_fifo_count)
              st  == IF cnt >= DEBUG_FIFO_SIZE
                     THEN debug_flush(cnt, debug_xfer_in_progress, claim)
                     ELSE [count |-> cnt, xfer |-> debug_xfer_in_progress]
          IN  /\ debug_fifo_count' = st.count
              /\ debug_xfer_in_progress' = st.xfer
              /\ dbg' = [dbg EXCEPT !.left = @ - 1,
                                     !.pc = IF dbg.left = 1 THEN "flush" ELSE "putc",
                                     !.idx = debug_fifo_count,
                                     !.oob = @ \/ debug_fifo_count >= DEBUG_FIFO_SIZE,
                                     !.stalled = @ \/ st.count >= DEBUG_FIFO_SIZE]
    /\ UNCHANGED <<debug_enabled, DebugRest_vars>>

\* debug.c:56  the debug_flush that ends dbg_print
DbgFlush ==
    /\ dbg.pc = "flush"
    /\ \E claim \in BOOLEAN :
          LET st == debug_flush(debug_fifo_count, debug_xfer_in_progress, claim)
          IN  /\ debug_fifo_count' = st.count
              /\ debug_xfer_in_progress' = st.xfer
    /\ dbg' = [dbg EXCEPT !.pc = "idle"]
    /\ UNCHANGED <<debug_enabled, DebugRest_vars>>

\* debug.c:150-164  debugd_xfer_cb for the debug endpoint
XferCb ==
    /\ dbg.pc = "idle"
    /\ debug_xfer_in_progress
    /\ \E claim \in BOOLEAN :
          LET st == IF debug_fifo_count > 0 THEN debug_flush(debug_fifo_count, FALSE, claim)
                    ELSE [count |-> debug_fifo_count, xfer |-> FALSE]
          IN  /\ debug_fifo_count' = st.count
              /\ debug_xfer_in_progress' = st.xfer
    /\ UNCHANGED <<debug_enabled, dbg, DebugRest_vars>>

DebugNext == SetEnabled \/ DbgPrint \/ DebugPutc \/ DbgFlush \/ XferCb

DebugSpec == DebugInit /\ [][DebugNext]_vars

\* C38: debug_fifo_count never exceeds DEBUG_FIFO_SIZE and debug_putc never
\* writes outside debug_fifo, for any interleaving of dbg_print calls with
\* transfer completion callbacks, also while a transfer is in progress or
\* the endpoint cannot be claimed.
C38_DebugBufferBound ==
    /\ debug_fifo_count <= DEBUG_FIFO_SIZE
    /\ ~dbg.oob

\* C38, what the code does keep: as long as every debug_flush made by
\* debug_putc on a full buffer has started a transfer, the count stays below
\* DEBUG_FIFO_SIZE and every write is inside debug_fifo.
C38_BoundWhileDrained ==
    ~dbg.stalled => (debug_fifo_count < DEBUG_FIFO_SIZE /\ ~dbg.oob)

====
